---- MODULE Spec2Model ----
(***************************************************************************)
(* Model of src/src/lib/ik.ts: the IK chain built by                       *)
(* createIKChainFromBones and the FABRIKSolver bound to it.                *)
(*                                                                         *)
(* THREE.Vector3 / THREE.Quaternion objects live in two heaps (reference   *)
(* -> value) so that clone(), copy() and plain reference sharing are       *)
(* different things.  Arithmetic is exact: coordinates are integers on a   *)
(* lattice whose step is half a length unit (the chain (0,0,0),(0,1,0),    *)
(* (0,2,0) with target (0,1.5,0) is <<0,0,0>>,<<0,2,0>>,<<0,4,0>> with     *)
(* target <<0,3,0>>), and a call of solve() whose intermediate values      *)
(* would leave the lattice (an irrational length or coordinate) is outside *)
(* the bounded input set.                                                  *)
(*                                                                         *)
(* SpecRounded runs solve() on rounded binary floating-point numbers       *)
(* instead, for what depends on the rounding of an operation; SpecPair     *)
(* runs two solvers side by side.  SpecSteps and SpecList are the list of  *)
(* saved steps that Controls and its hosts keep, SpecEditor the course     *)
(* editor's current step and playback, SpecHome the poses of Home and      *)
(* their item in local storage, SpecDrag the drag of a joint in            *)
(* JointControl.                                                           *)
(***************************************************************************)
EXTENDS Integers, Sequences, FiniteSets, TLC

\* ------------------------------------------------------------ bounds
MaxBones == 3
MaxIter == 2
MaxCalls == 3

\* ------------------------------------------------------------ vectors
Zero == <<0, 0, 0>>
Up == <<0, 1, 0>>

Abs(n) == IF n < 0 THEN -n ELSE n

sub(a, b) == <<a[1] - b[1], a[2] - b[2], a[3] - b[3]>>
add(a, b) == <<a[1] + b[1], a[2] + b[2], a[3] + b[3]>>
lengthSq(v) == v[1] * v[1] + v[2] * v[2] + v[3] * v[3]
distanceToSquared(a, b) == lengthSq(sub(a, b))

\* Integer square root (floor); a length is on the lattice iff it is exact.
RECURSIVE SqrtFrom(_, _)
SqrtFrom(n, r) == IF (r + 1) * (r + 1) > n THEN r ELSE SqrtFrom(n, r + 1)
ISqrt(n) == SqrtFrom(n, 0)
IsSquare(n) == ISqrt(n) * ISqrt(n) = n
length(v) == ISqrt(lengthSq(v))
distanceTo(a, b) == length(sub(a, b))

RECURSIVE Gcd(_, _)
Gcd(a, b) == IF b = 0 THEN a ELSE Gcd(b, a % b)

\* Vector3.normalize(): divideScalar(length() || 1).  The unit vector v/|v|
\* is represented by the primitive lattice vector of the same direction; the
\* zero vector stays the zero vector.
normalize(v) ==
    IF v = Zero THEN Zero
    ELSE LET g == Gcd(Gcd(Abs(v[1]), Abs(v[2])), Abs(v[3]))
         IN  <<v[1] \div g, v[2] \div g, v[3] \div g>>

\* Vector3.multiplyScalar(d) applied to a unit vector represented by dir:
\* (dir / |dir|) * d.
multiplyScalar(dir, d) ==
    IF dir = Zero THEN Zero
    ELSE <<(dir[1] * d) \div length(dir), (dir[2] * d) \div length(dir),
           (dir[3] * d) \div length(dir)>>

\* The product above is a lattice vector.
ExactScale(dir, d) ==
    \/ dir = Zero
    \/ /\ IsSquare(lengthSq(dir))
       /\ \A k \in 1..3 : (dir[k] * d) % length(dir) = 0

\* Quaternion.setFromUnitVectors((0,1,0), direction).  The shortest-arc
\* rotation taking +Y to direction is determined by direction, so it is
\* represented by that direction; the identity is the rotation taking +Y to
\* +Y, which is also what a zero direction yields (cross product 0, w = 1).
setFromUnitVectors(direction) == IF direction = Zero THEN Up ELSE direction
Identity == Up

\* ------------------------------------------------------------ inputs
\* Lattice points the caller's bones are drawn from (the test's skeleton is
\* <<0,0,0>>, <<0,2,0>>, <<0,4,0>>; bones may coincide or fold back).
BonePoints == {<<0, 0, 0>>, <<0, 2, 0>>, <<0, 4, 0>>}

\* How far the caller drags a joint: off the Y axis, so that 3-4-5 triangles
\* keep the lengths on the lattice.
Drag == <<3, 0, 0>>

\* Targets the caller starts from: on a joint, between joints, off the axis,
\* out of reach.
Targets == {<<0, 2, 0>>, <<0, 3, 0>>, <<3, 4, 0>>, <<0, 12, 0>>}

\* A tolerance is the rational num/den in lattice steps (half length units).
\* The test constructs its solver with (0.001, 50); the constructor's
\* defaults are (0.01, 10).
TestTolerance == [num |-> 1, den |-> 500]
TestMaxIterations == 50
DefaultTolerance == [num |-> 1, den |-> 50]
DefaultMaxIterations == 10
Tolerances == {[num |-> 0, den |-> 1], TestTolerance}

\* The solvers the caller constructs.
Solvers ==
    {[tolerance |-> tol, maxIterations |-> m] : tol \in Tolerances, m \in 0..MaxIter}
    \cup {[tolerance |-> TestTolerance, maxIterations |-> TestMaxIterations],
          [tolerance |-> DefaultTolerance, maxIterations |-> DefaultMaxIterations]}

\* ------------------------------------------------------------ state
VARIABLES
    bones,          \* the caller's THREE.Bone[]: [name, position, quaternion]
    vectors,        \* heap of Vector3 objects: reference -> value
    quaternions,    \* heap of Quaternion objects: reference -> value
    jointObjs,      \* heap of Joint objects: id -> [name, position, rotation, constraints]
    chain,          \* NoChain, or the IKChain [name, joints, target, effector]
    solver,         \* NoSolver, or the FABRIKSolver [tolerance, maxIterations]
    last,           \* the last operation and what it returned
    pre,            \* the heaps and joints as they were when the last operation began
    calls,          \* number of operations since the chain was built
    pair,           \* NoPair, or two solvers side by side: <<w1, w2>>, each
                    \* [solver, vectors, pre, last, calls] on a chain of its own
    host,           \* the page that hosts Controls: "home", "editor", or "none"
    poses,          \* the saved steps: Home's poses, the editor's course.steps
    currentData,    \* the editor's currentData: NoData, or the canvas's pose
    file,           \* NoFile, or the exported JSON file [text]
    exported,       \* the saved steps as they were when the file was written
    clock,          \* Date.now()
    currentStep,    \* the editor's currentStep: NoStep, or a step
    loadData,       \* the editor's loadData: NoData, or the pose handed to the canvas
    timers,         \* the setInterval timers of handlePlay, in the order they were set
    isLoading,      \* Home's isLoading
    storage,        \* localStorage's item 'climbing-poses'
    effects,        \* Home's effects that are scheduled and have not run, oldest first
    isDragging,     \* JointControl's isDragging, as last set
    lastMousePos,   \* JointControl's lastMousePos, as last set: NoPos, or [x, y]
    rendered,       \* the isDragging and lastMousePos of JointControl's last render
    listener,       \* the window's mousemove listener: NoListener, or its lastMousePos
    mouse           \* the mouse: where it is and the buttons held

ikVars == <<bones, vectors, quaternions, jointObjs, chain, solver, pre, calls, pair>>
uiVars == <<host, poses, currentData, file, exported, clock>>
editorVars == <<currentStep, loadData, timers>>
homeVars == <<isLoading, storage, effects>>
dragVars == <<isDragging, lastMousePos, rendered, listener, mouse>>
pageVars == <<editorVars, homeVars, dragVars>>
vars == <<bones, vectors, quaternions, jointObjs, chain, solver, last, pre, calls, pair,
          host, poses, currentData, file, exported, clock, currentStep, loadData, timers,
          isLoading, storage, effects, isDragging, lastMousePos, rendered, listener, mouse>>

NoData == [null |-> TRUE]
NoFile == [name |-> "none"]
NoStep == [id |-> <<"none", 0>>]
NoItem == [kind |-> "null", text |-> << >>]
NoPos == [null |-> TRUE]
NoListener == [registered |-> FALSE, lastMousePos |-> NoPos]

\* No page has done anything yet: no step is current, nothing is handed to
\* the canvas, no timer is set, Home is not mounted, no joint is dragged.
PagesAtRest ==
    /\ currentStep = NoStep
    /\ loadData = NoData
    /\ timers = << >>
    /\ isLoading = TRUE
    /\ storage = NoItem
    /\ effects = << >>
    /\ isDragging = FALSE
    /\ lastMousePos = NoPos
    /\ rendered = [isDragging |-> FALSE, lastMousePos |-> NoPos]
    /\ listener = NoListener
    /\ mouse = [pos |-> [x |-> 0, y |-> 0], buttons |-> 0]

NoChain == [name |-> "none"]
NoSolver == [tolerance |-> "none"]
NoPair == << >>
Undefined == <<"undefined", 0>>

BoneRef(i) == <<"bone", i>>
JointRef(i) == <<"joint", i>>
JointId(i) == <<"jointObj", i>>
TargetRef == <<"target", 0>>
Unnamed == <<"", 0>>

\* Default constraints given to every joint: -PI/2..PI/2 on each axis,
\* written in quarter turns.
DefaultConstraints == [minRotation |-> <<-1, -1, -1>>, maxRotation |-> <<1, 1, 1>>]

\* ------------------------------------------------------------ chain construction
\* bone.name || `joint_${index}` (index counts from 0)
JointName(bone, i) == IF bone.name = Unnamed THEN <<"joint", i - 1>> ELSE bone.name

\* Mutant of createIKChainFromBones: the joints hold the bones' own position
\* and quaternion objects (no clone()).
createWithoutClone(bs, targetPosition, chainName, vs, qs) ==
    LET n == Len(bs)
    IN  [chain |-> [name |-> chainName,
                    joints |-> [i \in 1..n |-> JointId(i)],
                    target |-> targetPosition,
                    effector |-> IF n = 0 THEN Undefined ELSE JointId(n)],
         jointObjs |-> [id \in {JointId(i) : i \in 1..n} |->
                          LET i == id[2]
                          IN  [name |-> JointName(bs[i], i),
                               position |-> bs[i].position,
                               rotation |-> bs[i].quaternion,
                               constraints |-> DefaultConstraints]],
         vectors |-> vs,
         quaternions |-> qs]

\* Mutant of createIKChainFromBones: the joints are built in reverse order.
createReversed(bs, targetPosition, chainName, vs, qs) ==
    LET n == Len(bs)
    IN  [chain |-> [name |-> chainName,
                    joints |-> [i \in 1..n |-> JointId(i)],
                    target |-> targetPosition,
                    effector |-> IF n = 0 THEN Undefined ELSE JointId(n)],
         jointObjs |-> [id \in {JointId(i) : i \in 1..n} |->
                          LET i == id[2]
                          IN  [name |-> JointName(bs[n + 1 - i], n + 1 - i),
                               position |-> JointRef(i),
                               rotation |-> JointRef(i),
                               constraints |-> DefaultConstraints]],
         vectors |-> [r \in {JointRef(i) : i \in 1..n} |->
                        vs[bs[n + 1 - r[2]].position]] @@ vs,
         quaternions |-> [r \in {JointRef(i) : i \in 1..n} |->
                            qs[bs[n + 1 - r[2]].quaternion]] @@ qs]

\* Mutant of createIKChainFromBones: the effector is joints[0].
createEffectorFirst(bs, targetPosition, chainName, vs, qs) ==
    LET n == Len(bs)
    IN  [chain |-> [name |-> chainName,
                    joints |-> [i \in 1..n |-> JointId(i)],
                    target |-> targetPosition,
                    effector |-> IF n = 0 THEN Undefined ELSE JointId(1)],
         jointObjs |-> [id \in {JointId(i) : i \in 1..n} |->
                          LET i == id[2]
                          IN  [name |-> JointName(bs[i], i),
                               position |-> JointRef(i),
                               rotation |-> JointRef(i),
                               constraints |-> DefaultConstraints]],
         vectors |-> [r \in {JointRef(i) : i \in 1..n} |-> vs[bs[r[2]].position]] @@ vs,
         quaternions |-> [r \in {JointRef(i) : i \in 1..n} |-> qs[bs[r[2]].quaternion]] @@ qs]

\* createIKChainFromBones(bones, targetPosition, chainName): one new Joint per
\* bone holding a clone of the bone's position and quaternion; the chain
\* holds the caller's targetPosition object itself.  Returns the chain and
\* the heaps with the new objects in them.
createIKChainFromBones(bs, targetPosition, chainName, vs, qs) ==
    LET n == Len(bs)
    IN  [chain |-> [name |-> chainName,
                    joints |-> [i \in 1..n |-> JointId(i)],
                    target |-> targetPosition,
                    effector |-> IF n = 0 THEN Undefined ELSE JointId(n)],
         jointObjs |-> [id \in {JointId(i) : i \in 1..n} |->
                          LET i == id[2]
                          IN  [name |-> JointName(bs[i], i),
                               position |-> JointRef(i),
                               rotation |-> JointRef(i),
                               constraints |-> DefaultConstraints]],
         vectors |-> [r \in {JointRef(i) : i \in 1..n} |-> vs[bs[r[2]].position]] @@ vs,
         quaternions |-> [r \in {JointRef(i) : i \in 1..n} |-> qs[bs[r[2]].quaternion]] @@ qs]

\* ------------------------------------------------------------ initial states
\* The caller's skeleton: up to MaxBones bones at lattice points, the first
\* at the origin of the skeleton's space (as in tests/ik.test.ts); the first
\* bone has no name; every second bone is turned from +Y to +X.
BoneAt(i) ==
    [name |-> IF i = 1 THEN Unnamed ELSE <<"bone", i>>,
     position |-> BoneRef(i), quaternion |-> BoneRef(i)]

Init ==
    \E n \in 0..MaxBones :
      \E ps \in {f \in [1..n -> BonePoints] : n > 0 => f[1] = Zero} :
        /\ bones = [i \in 1..n |-> BoneAt(i)]
        /\ vectors = [r \in {BoneRef(i) : i \in 1..n} |-> ps[r[2]]]
        /\ quaternions = [r \in {BoneRef(i) : i \in 1..n} |->
                            IF r[2] % 2 = 0 THEN <<1, 0, 0>> ELSE Identity]
        /\ jointObjs = << >>
        /\ chain = NoChain
        /\ solver = NoSolver
        /\ last = [op |-> "init"]
        /\ PagesAtRest
        /\ pre = [vectors |-> vectors, quaternions |-> quaternions,
                  jointObjs |-> jointObjs]
        /\ calls = 0
        /\ pair = NoPair
        /\ host = "none"
        /\ poses = << >>
        /\ currentData = NoData
        /\ file = NoFile
        /\ exported = << >>
        /\ clock = 0

\* const target = new THREE.Vector3(..); createIKChainFromBones(bones, target, name)
\* The caller's target object is either a vector of its own or, for an arm
\* of one or two bones, the position object of the last bone
\* (createIKChainFromBones(bones, hand.position, name)).
TargetArguments ==
    {[ref |-> TargetRef, vs |-> (TargetRef :> t) @@ vectors] : t \in Targets}
      \cup {[ref |-> BoneRef(Len(bones)), vs |-> vectors] :
               x \in IF Len(bones) \in {1, 2} THEN {0} ELSE {}}

CreateChain ==
    /\ chain = NoChain
    /\ \E a \in TargetArguments :
         LET vs == a.vs
             r == createIKChainFromBones(bones, a.ref, "leftArm", vs, quaternions)
         IN  /\ chain' = r.chain
             /\ jointObjs' = r.jointObjs
             /\ vectors' = r.vectors
             /\ quaternions' = r.quaternions
             /\ pre' = [vectors |-> vs, quaternions |-> quaternions,
                        jointObjs |-> jointObjs]
             /\ last' = [op |-> "create", target |-> vs[a.ref], name |-> "leftArm"]
    /\ UNCHANGED <<bones, solver, calls, pair, uiVars, pageVars>>

\* new FABRIKSolver(chain, tolerance, maxIterations)
NewSolver ==
    /\ chain # NoChain
    /\ solver = NoSolver
    /\ \E s \in Solvers : solver' = s
    /\ UNCHANGED <<bones, vectors, quaternions, jointObjs, chain, last, pre, calls, pair, uiVars, pageVars>>

\* ------------------------------------------------------------ FABRIKSolver.solve
\* Mutant of TooShort: only the chain of one joint is rejected.
TooShortOnlyOne(n) == n = 1

\* joints.length < 2
TooShort(n) == n < 2

\* distances[i] = joints[i].position.distanceTo(joints[i + 1].position)
Measure(vs, P) == [i \in 1..(Len(P) - 1) |-> distanceTo(vs[P[i]], vs[P[i + 1]])]

\* Every measured length is a whole number of lattice steps.
ExactMeasure(vs, P) ==
    \A i \in 1..(Len(P) - 1) : IsSquare(distanceToSquared(vs[P[i]], vs[P[i + 1]]))

\* distances.reduce((sum, dist) => sum + dist, 0)
RECURSIVE SumFrom(_, _)
SumFrom(D, i) == IF i > Len(D) THEN 0 ELSE D[i] + SumFrom(D, i + 1)
totalDistance(D) == SumFrom(D, 1)

\* Mutant of Unreachable: the comparison is >= instead of >.
UnreachableOrEqual(startToTargetSq, total) == startToTargetSq >= total * total

\* startToTarget > totalDistance; both sides are >= 0, so the comparison is
\* made on the squares and the root-to-target distance need not be whole.
Unreachable(startToTargetSq, total) == startToTargetSq > total * total

\* Mutant of Below: the comparison is <= instead of <.
BelowOrEqual(d2, tolerance) ==
    /\ tolerance.num >= 0
    /\ d2 * tolerance.den * tolerance.den <= tolerance.num * tolerance.num

\* endEffectorDistance < this.tolerance, on the squared distance d2.
Below(d2, tolerance) ==
    /\ tolerance.num > 0
    /\ d2 * tolerance.den * tolerance.den < tolerance.num * tolerance.num

\* Mutant of Extend: every joint is placed from the root, currentPos is not
\* accumulated.
RECURSIVE ExtendFromRoot(_, _, _, _, _, _)
ExtendFromRoot(st, P, D, direction, currentPos, i) ==
    IF i > Len(P) THEN st
    ELSE LET pos == add(currentPos, multiplyScalar(direction, D[i - 1]))
         IN  ExtendFromRoot([vs |-> [st.vs EXCEPT ![P[i]] = pos],
                             exact |-> st.exact /\ ExactScale(direction, D[i - 1]),
                             log |-> Append(st.log, i)],
                            P, D, direction, currentPos, i + 1)

\* Unreachable branch, the loop for (i = 1; i < joints.length; i++):
\* currentPos = currentPos.add(direction * distances[i - 1]);
\* joints[i].position.copy(currentPos).  st is [vs, exact, log].
RECURSIVE Extend(_, _, _, _, _, _)
Extend(st, P, D, direction, currentPos, i) ==
    IF i > Len(P) THEN st
    ELSE LET pos == add(currentPos, multiplyScalar(direction, D[i - 1]))
         IN  Extend([vs |-> [st.vs EXCEPT ![P[i]] = pos],
                     exact |-> st.exact /\ ExactScale(direction, D[i - 1]),
                     log |-> Append(st.log, i)],
                    P, D, direction, pos, i + 1)

\* Mutant of Descend: the direction points from the joint to its
\* already-updated neighbour instead of away from it.
RECURSIVE DescendReversed(_, _, _, _)
DescendReversed(st, P, D, i) ==
    IF i < 1 THEN st
    ELSE LET direction == normalize(sub(st.vs[P[i + 1]], st.vs[P[i]]))
             pos == add(st.vs[P[i + 1]], multiplyScalar(direction, D[i]))
         IN  DescendReversed([vs |-> [st.vs EXCEPT ![P[i]] = pos],
                              exact |-> st.exact /\ ExactScale(direction, D[i]),
                              log |-> Append(st.log, i)],
                             P, D, i - 1)

\* Forward reach, the loop for (i = joints.length - 2; i >= 0; i--).
RECURSIVE Descend(_, _, _, _)
Descend(st, P, D, i) ==
    IF i < 1 THEN st
    ELSE LET direction == normalize(sub(st.vs[P[i]], st.vs[P[i + 1]]))
             pos == add(st.vs[P[i + 1]], multiplyScalar(direction, D[i]))
         IN  Descend([vs |-> [st.vs EXCEPT ![P[i]] = pos],
                      exact |-> st.exact /\ ExactScale(direction, D[i]),
                      log |-> Append(st.log, i)],
                     P, D, i - 1)

\* Mutant of ForwardReach: the copy runs the other way, target.copy(effector).
ForwardReachSwapped(st, P, D, target) ==
    Descend([st EXCEPT !.vs[target] = st.vs[P[Len(P)]],
                       !.log = Append(@, Len(P))], P, D, Len(P) - 1)

\* Mutant of ForwardReach: the effector is not pinned onto the target.
ForwardReachUnpinned(st, P, D, target) == Descend(st, P, D, Len(P) - 1)

\* joints[joints.length - 1].position.copy(target), then the loop above.
ForwardReach(st, P, D, target) ==
    Descend([st EXCEPT !.vs[P[Len(P)]] = st.vs[target], !.log = Append(@, Len(P))],
            P, D, Len(P) - 1)

\* Backward reach, the loop for (i = 1; i < joints.length; i++).
RECURSIVE Ascend(_, _, _, _)
Ascend(st, P, D, i) ==
    IF i > Len(P) THEN st
    ELSE LET direction == normalize(sub(st.vs[P[i]], st.vs[P[i - 1]]))
             pos == add(st.vs[P[i - 1]], multiplyScalar(direction, D[i - 1]))
         IN  Ascend([vs |-> [st.vs EXCEPT ![P[i]] = pos],
                     exact |-> st.exact /\ ExactScale(direction, D[i - 1]),
                     log |-> Append(st.log, i)],
                    P, D, i + 1)

\* Mutant of BackwardReach: the root is put back at the skeleton's origin before
\* the loop, as FABRIK with a fixed root does.
BackwardReachFromOrigin(st, P, D) == Ascend([st EXCEPT !.vs[P[1]] = Zero], P, D, 2)

BackwardReach(st, P, D) == Ascend(st, P, D, 2)

Positions(vs, P) == [i \in 1..Len(P) |-> vs[P[i]]]

\* Mutant of Iterate: the loop runs while iteration <= maxIterations.
RECURSIVE IterateOneMore(_, _, _, _, _, _, _, _)
IterateOneMore(st, P, D, target, tolerance, maxIterations, iteration, ends) ==
    IF iteration > maxIterations
    THEN [vs |-> st.vs, exact |-> st.exact, ret |-> FALSE, iterations |-> iteration,
          ends |-> ends]
    ELSE LET fw == ForwardReach([st EXCEPT !.log = << >>], P, D, target)
             st1 == BackwardReach(fw, P, D)
             d2 == distanceToSquared(st1.vs[P[Len(P)]], st1.vs[target])
             ends1 == Append(ends, [d2 |-> d2, positions |-> Positions(st1.vs, P),
                                    writes |-> st1.log,
                                    forward |-> Positions(fw.vs, P)])
         IN  IF Below(d2, tolerance)
             THEN [vs |-> st1.vs, exact |-> st1.exact, ret |-> TRUE,
                   iterations |-> iteration + 1, ends |-> ends1]
             ELSE IterateOneMore(st1, P, D, target, tolerance, maxIterations,
                                 iteration + 1, ends1)

\* The loop for (iteration = 0; iteration < maxIterations; iteration++).
\* ends records, per executed iteration, the squared effector-to-target
\* distance and the joint positions at the convergence check, the joints
\* (by index, in order) whose position the iteration wrote, and the joint
\* positions between its two passes.
RECURSIVE Iterate(_, _, _, _, _, _, _, _)
Iterate(st, P, D, target, tolerance, maxIterations, iteration, ends) ==
    IF iteration >= maxIterations
    THEN [vs |-> st.vs, exact |-> st.exact, ret |-> FALSE, iterations |-> iteration,
          ends |-> ends]
    ELSE LET fw == ForwardReach([st EXCEPT !.log = << >>], P, D, target)
             st1 == BackwardReach(fw, P, D)
             d2 == distanceToSquared(st1.vs[P[Len(P)]], st1.vs[target])
             ends1 == Append(ends, [d2 |-> d2, positions |-> Positions(st1.vs, P),
                                    writes |-> st1.log,
                                    forward |-> Positions(fw.vs, P)])
         IN  IF Below(d2, tolerance)
             THEN [vs |-> st1.vs, exact |-> st1.exact, ret |-> TRUE,
                   iterations |-> iteration + 1, ends |-> ends1]
             ELSE Iterate(st1, P, D, target, tolerance, maxIterations,
                          iteration + 1, ends1)

\* solve() on the heap vs for the chain whose joints' position objects are P
\* (root first) and whose target object is target.  The result holds the
\* heap after the call, the returned boolean (or threw, for a TypeError on
\* joints[0] of an empty array), the path taken, the measured distances and
\* the number of iterations run.
solve(vs, P, target, tolerance, maxIterations) ==
    IF TooShort(Len(P))
    THEN [vs |-> vs, exact |-> TRUE, ret |-> FALSE, threw |-> FALSE, path |-> "short",
          iterations |-> 0, ends |-> << >>, distances |-> << >>]
    ELSE IF Len(P) = 0
    THEN [vs |-> vs, exact |-> TRUE, ret |-> FALSE, threw |-> TRUE, path |-> "threw",
          iterations |-> 0, ends |-> << >>, distances |-> << >>]
    ELSE LET D == Measure(vs, P)
             st == [vs |-> vs, exact |-> ExactMeasure(vs, P), log |-> << >>]
         IN  IF Unreachable(distanceToSquared(vs[P[1]], vs[target]), totalDistance(D))
             THEN LET direction == normalize(sub(vs[target], vs[P[1]]))
                      r == Extend(st, P, D, direction, vs[P[1]], 2)
                  IN  [vs |-> r.vs, exact |-> r.exact, ret |-> FALSE, threw |-> FALSE,
                       path |-> "unreachable", iterations |-> 0, ends |-> << >>,
                       distances |-> D]
             ELSE LET r == Iterate(st, P, D, target, tolerance, maxIterations, 0, << >>)
                  IN  [vs |-> r.vs, exact |-> r.exact, ret |-> r.ret, threw |-> FALSE,
                       path |-> "iterated", iterations |-> r.iterations,
                       ends |-> r.ends, distances |-> D]

\* ------------------------------------------------------------ FABRIKSolver.updateRotations
\* Mutant of updateRotations: the loop runs to the last joint, which is
\* turned the way the segment before it points.
RECURSIVE updateRotationsAll(_, _, _, _, _)
updateRotationsAll(qs, vs, P, R, i) ==
    IF i > Len(P) THEN qs
    ELSE LET direction == IF i < Len(P) THEN normalize(sub(vs[P[i + 1]], vs[P[i]]))
                          ELSE IF i > 1 THEN normalize(sub(vs[P[i]], vs[P[i - 1]]))
                          ELSE Zero
         IN  updateRotationsAll([qs EXCEPT ![R[i]] = setFromUnitVectors(direction)],
                                vs, P, R, i + 1)

\* for (i = 0; i < joints.length - 1; i++): joint.rotation.copy(
\*   setFromUnitVectors((0,1,0), normalize(nextJoint.position - joint.position)))
RECURSIVE updateRotations(_, _, _, _, _)
updateRotations(qs, vs, P, R, i) ==
    IF i > Len(P) - 1 THEN qs
    ELSE LET direction == normalize(sub(vs[P[i + 1]], vs[P[i]]))
         IN  updateRotations([qs EXCEPT ![R[i]] = setFromUnitVectors(direction)],
                             vs, P, R, i + 1)

\* ------------------------------------------------------------ operations
\* The position and rotation objects of the chain's joints, root first.
JointPositions == [i \in 1..Len(chain.joints) |-> jointObjs[chain.joints[i]].position]
JointRotations == [i \in 1..Len(chain.joints) |-> jointObjs[chain.joints[i]].rotation]

Snapshot == [vectors |-> vectors, quaternions |-> quaternions, jointObjs |-> jointObjs]

\* What a later call is told of the operation l before it: which it was, whether
\* it was a solve() that returned true, and the segment lengths the most
\* recent solve() measured (kept across a drag of the last joint).
Brief(l) ==
    [op |-> l.op,
     ret |-> (l.op = "solve" /\ l.ret),
     measured |-> IF l.op = "solve" THEN l.distances
                  ELSE IF l.op = "moveJoint" THEN l.measured
                  ELSE << >>]

\* Mutant of Solve: solve() ends by calling updateRotations() itself.
SolveThenUpdateRotations ==
    /\ solver # NoSolver
    /\ calls < MaxCalls
    /\ \E r \in {solve(vectors, JointPositions, chain.target,
                       solver.tolerance, solver.maxIterations)} :
           /\ r.exact
           /\ vectors' = r.vs
           /\ quaternions' = updateRotations(quaternions, r.vs, JointPositions,
                                             JointRotations, 1)
           /\ last' = [op |-> "solve", ret |-> r.ret, threw |-> r.threw,
                       path |-> r.path, iterations |-> r.iterations,
                       ends |-> r.ends, distances |-> r.distances,
                       prior |-> Brief(last)]
    /\ pre' = Snapshot
    /\ calls' = calls + 1
    /\ UNCHANGED <<bones, jointObjs, chain, solver, pair, uiVars, pageVars>>

\* solver.solve().  The result is bound once (\E over a singleton); r.exact
\* keeps the calls whose every length and coordinate stays on the lattice.
Solve ==
    /\ solver # NoSolver
    /\ calls < MaxCalls
    /\ \E r \in {solve(vectors, JointPositions, chain.target,
                       solver.tolerance, solver.maxIterations)} :
           /\ r.exact
           /\ vectors' = r.vs
           /\ last' = [op |-> "solve", ret |-> r.ret, threw |-> r.threw,
                       path |-> r.path, iterations |-> r.iterations,
                       ends |-> r.ends, distances |-> r.distances,
                       prior |-> Brief(last)]
    /\ pre' = Snapshot
    /\ calls' = calls + 1
    /\ UNCHANGED <<bones, quaternions, jointObjs, chain, solver, pair, uiVars, pageVars>>

\* solver.updateRotations()
UpdateRotations ==
    /\ solver # NoSolver
    /\ calls < MaxCalls
    /\ quaternions' = updateRotations(quaternions, vectors, JointPositions,
                                      JointRotations, 1)
    /\ last' = [op |-> "updateRotations"]
    /\ pre' = Snapshot
    /\ calls' = calls + 1
    /\ UNCHANGED <<bones, vectors, jointObjs, chain, solver, pair, uiVars, pageVars>>

\* The caller moves its own target object one step along +Y
\* (target.y += ..., as a drag does every frame).
SetTarget ==
    /\ solver # NoSolver
    /\ calls < MaxCalls
    /\ vectors' = [vectors EXCEPT ![chain.target] = add(@, Up)]
    /\ last' = [op |-> "setTarget"]
    /\ pre' = Snapshot
    /\ calls' = calls + 1
    /\ UNCHANGED <<bones, quaternions, jointObjs, chain, solver, pair, uiVars, pageVars>>

\* The scene moves and turns the skeleton: every source bone is written.
RECURSIVE moveBones(_, _, _)
moveBones(h, refs, v) ==
    IF refs = << >> THEN h
    ELSE moveBones([h EXCEPT ![Head(refs)] = v[Head(refs)]], Tail(refs), v)

MoveBone ==
    /\ solver # NoSolver
    /\ calls < MaxCalls
    /\ Len(bones) > 0
    /\ vectors' = moveBones(vectors, [i \in 1..Len(bones) |-> bones[i].position],
                            [r \in DOMAIN vectors |-> add(vectors[r], Up)])
    /\ quaternions' = moveBones(quaternions, [i \in 1..Len(bones) |-> bones[i].quaternion],
                                [r \in DOMAIN quaternions |-> <<0, 0, 1>>])
    /\ last' = [op |-> "moveBone"]
    /\ pre' = Snapshot
    /\ calls' = calls + 1
    /\ UNCHANGED <<bones, jointObjs, chain, solver, pair, uiVars, pageVars>>

\* The caller drags the last joint of the chain sideways
\* (chain.joints[n - 1].position.x += ...).
MoveJoint ==
    /\ solver # NoSolver
    /\ calls < MaxCalls
    /\ Len(chain.joints) > 0
    /\ vectors' = [vectors EXCEPT
                     ![jointObjs[chain.joints[Len(chain.joints)]].position] = add(@, Drag)]
    /\ last' = [op |-> "moveJoint", measured |-> Brief(last).measured]
    /\ pre' = Snapshot
    /\ calls' = calls + 1
    /\ UNCHANGED <<bones, quaternions, jointObjs, chain, solver, pair, uiVars, pageVars>>

Next ==
    \/ CreateChain
    \/ NewSolver
    \/ Solve
    \/ UpdateRotations
    \/ SetTarget
    \/ MoveBone
    \/ MoveJoint

Spec == Init /\ [][Next]_vars

\* ------------------------------------------------------------ saved steps (Controls and its hosts)
MaxClock == 3

\* Step names the user types (non-empty after trim()).
Names == {"start", "top"}

\* The data Controls puts in a new step ("actual data is supplied by parent")
\* and the poses the canvas reports through onPoseChange.
PoseOf(position) ==
    [model |-> [position |-> position, rotation |-> Zero, scale |-> <<1, 1, 1>>],
     bones |-> << >>]
Placeholder == PoseOf(Zero)
CanvasPoses == {PoseOf(<<0, 1, 0>>), PoseOf(<<1, 0, 0>>)}

\* prev.findIndex(p => p.id === id): the first index with that id, or 0.
findIndex(list, id) ==
    IF \E k \in 1..Len(list) : list[k].id = id
    THEN CHOOSE k \in 1..Len(list) :
            /\ list[k].id = id
            /\ \A j \in 1..(k - 1) : list[j].id # id
    ELSE 0

\* Mutant of handlePoseSave: the step is always added, [...prev, pose].
handlePoseSaveAdded(prev, pose) == Append(prev, pose)

\* Home.handlePoseSave: the step replaces the one with its id, or is added.
handlePoseSave(prev, pose) ==
    LET existingIndex == findIndex(prev, pose.id)
    IN  IF existingIndex >= 1 THEN [prev EXCEPT ![existingIndex] = pose]
        ELSE Append(prev, pose)

\* EditorContent.handleStepSave: if (currentData) step = {...step, data:
\* currentData}, then the same replace-or-add.
handleStepSave(steps, step, data) ==
    handlePoseSave(steps, IF data # NoData THEN [step EXCEPT !.data = data] ELSE step)

\* The onPoseSave the host passes to Controls.
onPoseSave(list, pose) ==
    IF host = "editor" THEN handleStepSave(list, pose, currentData)
    ELSE handlePoseSave(list, pose)

\* JSON.stringify(poses, null, 2): an array of objects, each the list of its
\* members in property order.
stringify(list) ==
    [k \in 1..Len(list) |->
        << <<"id", list[k].id>>, <<"name", list[k].name>>,
           <<"data", list[k].data>>, <<"timestamp", list[k].timestamp>> >>]

\* The value of the last member of the object text with that key.
Member(object, key) ==
    LET at == CHOOSE k \in 1..Len(object) :
                 /\ object[k][1] = key
                 /\ \A j \in (k + 1)..Len(object) : object[j][1] # key
    IN  object[at][2]

\* JSON.parse(text): each object becomes a record of its members.
parse(text) ==
    [k \in 1..Len(text) |->
        [id |-> Member(text[k], "id"), name |-> Member(text[k], "name"),
         data |-> Member(text[k], "data"), timestamp |-> Member(text[k], "timestamp")]]

\* importedPoses.forEach(pose => onPoseSave?.(pose))
RECURSIVE forEachSave(_, _)
forEachSave(list, importedPoses) ==
    IF importedPoses = << >> THEN list
    ELSE forEachSave(onPoseSave(list, Head(importedPoses)), Tail(importedPoses))

\* A page with Controls is opened: Home (app/page.tsx) or the course editor.
InitSteps ==
    /\ host \in {"home", "editor"}
    /\ poses = << >>
    /\ currentData = NoData
    /\ file = NoFile
    /\ exported = << >>
    /\ clock = 1
    /\ bones = << >>
    /\ vectors = << >>
    /\ quaternions = << >>
    /\ jointObjs = << >>
    /\ chain = NoChain
    /\ solver = NoSolver
    /\ last = [op |-> "init"]
    /\ PagesAtRest
    /\ pre = [vectors |-> vectors, quaternions |-> quaternions, jointObjs |-> jointObjs]
    /\ calls = 0
    /\ pair = NoPair

\* EditorContent.handlePoseChange: the canvas reports the pose on screen.
handlePoseChange ==
    /\ host = "editor"
    /\ \E d \in CanvasPoses : currentData' = d
    /\ last' = [op |-> "poseChange"]
    /\ UNCHANGED <<host, poses, file, exported, clock>>
    /\ UNCHANGED <<ikVars, pageVars>>

\* Controls.handleSavePose: a new step named by the user, its id and
\* timestamp taken from Date.now(); the alert() lets the clock move on.
handleSavePose ==
    /\ clock < MaxClock
    /\ \E name \in Names :
         poses' = onPoseSave(poses, [id |-> <<"pose", clock>>, name |-> name,
                                     data |-> Placeholder, timestamp |-> clock])
    /\ clock' = clock + 1
    /\ last' = [op |-> "save"]
    /\ UNCHANGED <<host, currentData, file, exported>>
    /\ UNCHANGED <<ikVars, pageVars>>

\* Controls.handleDeletePose -> onPoseDelete: prev.filter(p => p.id !== poseId)
handleDeletePose ==
    /\ \E k \in 1..Len(poses) :
         poses' = SelectSeq(poses, LAMBDA p : p.id # poses[k].id)
    /\ last' = [op |-> "delete"]
    /\ UNCHANGED <<host, currentData, file, exported, clock>>
    /\ UNCHANGED <<ikVars, pageVars>>

\* Controls.handleExportPoses: nothing without steps; else the file is written.
handleExportPoses ==
    /\ Len(poses) # 0
    /\ file' = [text |-> stringify(poses)]
    /\ exported' = poses
    /\ last' = [op |-> "export"]
    /\ UNCHANGED <<host, poses, currentData, clock>>
    /\ UNCHANGED <<ikVars, pageVars>>

\* Controls.handleImportPoses: the chosen file is parsed and, being an array,
\* every element is handed to onPoseSave.
handleImportPoses ==
    /\ file # NoFile
    /\ poses' = forEachSave(poses, parse(file.text))
    /\ last' = [op |-> "import"]
    /\ UNCHANGED <<host, currentData, file, exported, clock>>
    /\ UNCHANGED <<ikVars, pageVars>>

\* Steps of a file that Controls did not write: one with the id of the first
\* step Controls saves, two with an id of their own.
ForeignSteps ==
    {[id |-> <<"pose", 1>>, name |-> "top", data |-> Placeholder, timestamp |-> 1],
     [id |-> <<"pose", 0>>, name |-> "start", data |-> Placeholder, timestamp |-> 0],
     [id |-> <<"pose", 0>>, name |-> "top", data |-> Placeholder, timestamp |-> 0]}

\* The arrays such a file may hold: no step, one, or two in either order,
\* the same id twice or not.
ForeignArrays ==
    {<< >>} \cup {<<a>> : a \in ForeignSteps} \cup {<<a, b>> : a, b \in ForeignSteps}

\* Controls.handleImportPoses on a file written elsewhere: its text is
\* parsed and every element is handed to onPoseSave, in array order.
handleImportArray ==
    /\ \E array \in ForeignArrays :
         /\ poses' = forEachSave(poses, parse(stringify(array)))
         /\ last' = [op |-> "importArray", array |-> array]
    /\ UNCHANGED <<host, currentData, file, exported, clock>>
    /\ UNCHANGED <<ikVars, pageVars>>

NextSteps ==
    \/ handlePoseChange
    \/ handleSavePose
    \/ handleDeletePose
    \/ handleExportPoses
    \/ handleImportPoses

SpecSteps == InitSteps /\ [][NextSteps]_vars

\* The list of steps under saves, deletes and imports of files written elsewhere.
NextList ==
    \/ handlePoseChange
    \/ handleSavePose
    \/ handleDeletePose
    \/ handleImportArray

SpecList == InitSteps /\ [][NextList]_vars

\* ------------------------------------------------------------ the course editor: current step and playback
MaxSteps == 2
MaxPlays == 1

\* The steps of the course found in storage when the editor opens.
StoredStep(k) ==
    [id |-> <<"pose", k>>, name |-> "start", data |-> PoseOf(<<0, k, 0>>), timestamp |-> k]

\* EditorContent.handleStepLoad: setCurrentStep(step); setLoadData({...step.data})
handleStepLoad(step) == [currentStep |-> step, loadData |-> step.data]

\* The editor is opened on a stored course (setCourse(found)).
InitEditor ==
    /\ host = "editor"
    /\ \E n \in 0..MaxSteps :
         /\ poses = [k \in 1..n |-> StoredStep(k)]
         /\ clock = n + 1
    /\ currentData = NoData
    /\ file = NoFile
    /\ exported = << >>
    /\ bones = << >>
    /\ vectors = << >>
    /\ quaternions = << >>
    /\ jointObjs = << >>
    /\ chain = NoChain
    /\ solver = NoSolver
    /\ last = [op |-> "init"]
    /\ PagesAtRest
    /\ pre = [vectors |-> vectors, quaternions |-> quaternions, jointObjs |-> jointObjs]
    /\ calls = 0
    /\ pair = NoPair

\* Controls.handleSavePose in the editor: onPoseSave is handleStepSave.
StepSave ==
    /\ clock < MaxClock
    /\ \E name \in Names :
         poses' = handleStepSave(poses, [id |-> <<"pose", clock>>, name |-> name,
                                         data |-> Placeholder, timestamp |-> clock],
                                 currentData)
    /\ clock' = clock + 1
    /\ last' = [op |-> "save"]
    /\ UNCHANGED <<host, currentData, file, exported, editorVars>>
    /\ UNCHANGED <<ikVars, homeVars, dragVars>>

\* Controls.handleLoadPose -> handleStepLoad(pose), pose being a row of the list.
StepLoad ==
    /\ \E k \in 1..Len(poses) :
         \E r \in {handleStepLoad(poses[k])} :
            /\ currentStep' = r.currentStep
            /\ loadData' = r.loadData
    /\ last' = [op |-> "load"]
    /\ UNCHANGED <<host, poses, currentData, file, exported, clock, timers>>
    /\ UNCHANGED <<ikVars, homeVars, dragVars>>

\* Controls.handleDeletePose -> handleStepDelete(id): the steps with that id
\* leave course.steps; if (currentStep?.id === id) setCurrentStep(null).
StepDelete ==
    /\ \E k \in 1..Len(poses) :
         LET id == poses[k].id
         IN  /\ poses' = SelectSeq(poses, LAMBDA s : s.id # id)
             /\ currentStep' = IF currentStep # NoStep /\ currentStep.id = id
                               THEN NoStep ELSE currentStep
    /\ last' = [op |-> "delete"]
    /\ UNCHANGED <<host, currentData, file, exported, clock, loadData, timers>>
    /\ UNCHANGED <<ikVars, homeVars, dragVars>>

\* EditorContent.handlePlay: nothing without steps; else the first step is
\* loaded and an interval timer is set whose callback keeps the course of
\* this render (steps) and its own index.  loaded is the list of the steps
\* this press has loaded so far.
handlePlay ==
    /\ Len(poses) = 0 \/ Len(timers) < MaxPlays
    /\ IF Len(poses) = 0
       THEN /\ last' = [op |-> "play", started |-> FALSE, prior |-> last.op]
            /\ UNCHANGED editorVars
       ELSE \E r \in {handleStepLoad(poses[1])} :
            /\ currentStep' = r.currentStep
            /\ loadData' = r.loadData
            /\ timers' = Append(timers, [steps |-> poses, index |-> 0, cleared |-> FALSE,
                                         loaded |-> <<poses[1]>>])
            /\ last' = [op |-> "play", started |-> TRUE, prior |-> last.op]
    /\ UNCHANGED <<host, poses, currentData, file, exported, clock>>
    /\ UNCHANGED <<ikVars, homeVars, dragVars>>

\* Mutant of Tick: the index is advanced after the step is loaded, not before.
TickLate(t) ==
    /\ ~timers[t].cleared
    /\ LET index == timers[t].index
           steps == timers[t].steps
       IN  IF index + 1 > Len(steps)
           THEN /\ timers' = [timers EXCEPT ![t].cleared = TRUE]
                /\ UNCHANGED <<currentStep, loadData>>
           ELSE \E r \in {handleStepLoad(steps[index + 1])} :
                /\ currentStep' = r.currentStep
                /\ loadData' = r.loadData
                /\ timers' = [timers EXCEPT ![t].index = index + 1,
                                            ![t].loaded = Append(@, steps[index + 1])]
    /\ last' = [op |-> "tick", timer |-> t]
    /\ UNCHANGED <<host, poses, currentData, file, exported, clock>>
    /\ UNCHANGED <<ikVars, homeVars, dragVars>>

\* The callback of timer t: index++; if (!course.steps[index]) the timer is
\* cleared, else that step of the captured course is loaded.
Tick(t) ==
    /\ ~timers[t].cleared
    /\ LET index == timers[t].index + 1
           steps == timers[t].steps
       IN  IF index + 1 > Len(steps)
           THEN /\ timers' = [timers EXCEPT ![t].index = index, ![t].cleared = TRUE]
                /\ UNCHANGED <<currentStep, loadData>>
           ELSE \E r \in {handleStepLoad(steps[index + 1])} :
                /\ currentStep' = r.currentStep
                /\ loadData' = r.loadData
                /\ timers' = [timers EXCEPT ![t].index = index,
                                            ![t].loaded = Append(@, steps[index + 1])]
    /\ last' = [op |-> "tick", timer |-> t]
    /\ UNCHANGED <<host, poses, currentData, file, exported, clock>>
    /\ UNCHANGED <<ikVars, homeVars, dragVars>>

TimerTick == \E t \in 1..Len(timers) : Tick(t)

\* EditorContent.handleReset: setCurrentStep(null)
handleReset ==
    /\ currentStep # NoStep
    /\ currentStep' = NoStep
    /\ last' = [op |-> "reset"]
    /\ UNCHANGED <<host, poses, currentData, file, exported, clock, loadData, timers>>
    /\ UNCHANGED <<ikVars, homeVars, dragVars>>

NextEditor ==
    \/ StepSave
    \/ StepLoad
    \/ StepDelete
    \/ handlePlay
    \/ TimerTick
    \/ handleReset

SpecEditor == InitEditor /\ [][NextEditor]_vars

\* An interval timer fires again and again until it is cleared.
SpecEditorFair ==
    /\ InitEditor
    /\ [][NextEditor]_vars
    /\ \A t \in 1..MaxPlays : WF_vars(t <= Len(timers) /\ Tick(t))

\* ------------------------------------------------------------ Home: the poses and local storage
\* What a previous visit may have left in the item 'climbing-poses': nothing,
\* the text of an array of poses, the text of a value that is not an array,
\* or a text JSON.parse rejects.
StoredItems ==
    {NoItem, [kind |-> "object", text |-> << >>], [kind |-> "corrupt", text |-> << >>]}
      \cup {[kind |-> "array", text |-> stringify([k \in 1..n |-> StoredStep(k)])] :
               n \in 0..MaxSteps}

\* localStorage.setItem('climbing-poses', JSON.stringify(list))
setItem(list) == [kind |-> "array", text |-> stringify(list)]

\* The load effect's setPoses: the parsed array, [] for a value that is not
\* an array, nothing for no item and for a text that does not parse.
loadedPoses(item, prev) ==
    IF item.kind = "array" THEN parse(item.text)
    ELSE IF item.kind = "object" THEN << >>
    ELSE prev

\* Mutant of saveEffect: the list is written whether or not it has been loaded.
saveEffectUngated(e, item) == setItem(e.poses)

\* The save effect of a render: if (!isLoading) setItem(...), on the poses
\* and isLoading of that render.
saveEffect(e, item) == IF ~e.isLoading THEN setItem(e.poses) ELSE item

\* The effect of a render whose poses or isLoading differ from the last one's.
scheduled(list, loading) == [effect |-> "save", poses |-> list, isLoading |-> loading]

\* Home is mounted: the first render has poses = [] and isLoading = true, and
\* schedules the load effect and the save effect, in that order.
InitHome ==
    /\ host = "home"
    /\ poses = << >>
    /\ isLoading = TRUE
    /\ storage \in StoredItems
    /\ clock = Len(storage.text) + 1
    /\ effects = <<[effect |-> "load", poses |-> << >>, isLoading |-> TRUE],
                   scheduled(<< >>, TRUE)>>
    /\ currentStep = NoStep
    /\ loadData = NoData
    /\ timers = << >>
    /\ currentData = NoData
    /\ file = NoFile
    /\ exported = << >>
    /\ bones = << >>
    /\ vectors = << >>
    /\ quaternions = << >>
    /\ jointObjs = << >>
    /\ chain = NoChain
    /\ solver = NoSolver
    /\ last = [op |-> "init"]
    /\ isDragging = FALSE
    /\ lastMousePos = NoPos
    /\ rendered = [isDragging |-> FALSE, lastMousePos |-> NoPos]
    /\ listener = NoListener
    /\ mouse = [pos |-> [x |-> 0, y |-> 0], buttons |-> 0]
    /\ pre = [vectors |-> vectors, quaternions |-> quaternions, jointObjs |-> jointObjs]
    /\ calls = 0
    /\ pair = NoPair

\* The oldest scheduled effect runs.  The load effect ends with
\* setIsLoading(false), so the next render schedules the save effect again.
RunEffect ==
    /\ effects # << >>
    /\ LET e == Head(effects)
       IN  IF e.effect = "load"
           THEN /\ poses' = loadedPoses(storage, poses)
                /\ isLoading' = FALSE
                /\ effects' = Append(Tail(effects), scheduled(poses', FALSE))
                /\ UNCHANGED storage
                /\ last' = [op |-> "effect", effect |-> "load", wrote |-> FALSE]
           ELSE /\ storage' = saveEffect(e, storage)
                /\ effects' = Tail(effects)
                /\ UNCHANGED <<poses, isLoading>>
                /\ last' = [op |-> "effect", effect |-> "save", wrote |-> storage' # storage]
    /\ UNCHANGED <<host, currentData, file, exported, clock>>
    /\ UNCHANGED <<ikVars, editorVars, dragVars>>

\* Controls is on the page once isLoading is false, and an event is handled
\* after the effects of the render before it have run.
Interactive == ~isLoading /\ effects = << >>

\* Controls.handleSavePose on Home: handlePoseSave, then the render's effect.
PoseSave ==
    /\ Interactive
    /\ clock < MaxClock
    /\ \E name \in Names :
         poses' = handlePoseSave(poses, [id |-> <<"pose", clock>>, name |-> name,
                                         data |-> Placeholder, timestamp |-> clock])
    /\ clock' = clock + 1
    /\ effects' = Append(effects, scheduled(poses', isLoading))
    /\ last' = [op |-> "save"]
    /\ UNCHANGED <<host, currentData, file, exported, isLoading, storage>>
    /\ UNCHANGED <<ikVars, editorVars, dragVars>>

\* Controls.handleDeletePose on Home: handlePoseDelete, then the render's effect.
PoseDelete ==
    /\ Interactive
    /\ \E k \in 1..Len(poses) :
         poses' = SelectSeq(poses, LAMBDA p : p.id # poses[k].id)
    /\ effects' = Append(effects, scheduled(poses', isLoading))
    /\ last' = [op |-> "delete"]
    /\ UNCHANGED <<host, currentData, file, exported, clock, isLoading, storage>>
    /\ UNCHANGED <<ikVars, editorVars, dragVars>>

\* A file with one pose that has the id of the first stored pose and a new name.
Renamed == <<[StoredStep(1) EXCEPT !.name = "top"]>>

\* Controls.handleImportPoses on Home: every pose of the file goes through
\* handlePoseSave (an update if its id is in the list), then the render's effect.
PoseImport ==
    /\ Interactive
    /\ poses' = forEachSave(poses, Renamed)
    /\ effects' = Append(effects, scheduled(poses', isLoading))
    /\ last' = [op |-> "import"]
    /\ UNCHANGED <<host, currentData, file, exported, clock, isLoading, storage>>
    /\ UNCHANGED <<ikVars, editorVars, dragVars>>

NextHome ==
    \/ RunEffect
    \/ PoseSave
    \/ PoseDelete
    \/ PoseImport

SpecHome == InitHome /\ [][NextHome]_vars

\* A scheduled effect does run.
SpecHomeFair ==
    /\ InitHome
    /\ [][NextHome]_vars
    /\ WF_vars(RunEffect)

\* ------------------------------------------------------------ JointControl: the drag of a joint
MaxX == 3

\* Where the mouse can be (clientX, clientY).
MousePositions == {[x |-> x, y |-> y] : x \in 0..MaxX, y \in {0, 2}}

screenDelta(currentMousePos, lastPos) ==
    [x |-> currentMousePos.x - lastPos.x, y |-> currentMousePos.y - lastPos.y]

\* Math.abs(screenDelta.x) > 1 || Math.abs(screenDelta.y) > 1
NotNoise(delta) == Abs(delta.x) > 1 \/ Abs(delta.y) > 1

\* What a handler leaves: the state as last set and its calls of onDrag.
Handled(dragging, pos, drags) == [isDragging |-> dragging, lastMousePos |-> pos, calls |-> drags]

\* JointControl.handlePointerMove, with the isDragging and lastMousePos of
\* render c, on state s.
handlePointerMove(c, s, event) ==
    IF ~c.isDragging \/ c.lastMousePos = NoPos
    THEN Handled(s.isDragging, s.lastMousePos, << >>)
    ELSE IF event.buttons = 0
    THEN Handled(FALSE, NoPos, << >>)
    ELSE IF event.buttons = 1
    THEN LET delta == screenDelta(event.pos, c.lastMousePos)
         IN  Handled(s.isDragging, event.pos, IF NotNoise(delta) THEN <<delta>> ELSE << >>)
    ELSE Handled(s.isDragging, s.lastMousePos, << >>)

\* handleGlobalMouseMove, with the lastMousePos of the render whose effect
\* registered it (c), on state s.
handleGlobalMouseMove(c, s, event) ==
    IF c.lastMousePos = NoPos
    THEN Handled(s.isDragging, s.lastMousePos, << >>)
    ELSE IF event.buttons = 1
    THEN LET delta == screenDelta(event.pos, c.lastMousePos)
         IN  IF NotNoise(delta)
             THEN Handled(s.isDragging, event.pos, <<delta>>)
             ELSE Handled(s.isDragging, s.lastMousePos, << >>)
    ELSE IF event.buttons = 0
    THEN Handled(FALSE, NoPos, << >>)
    ELSE Handled(s.isDragging, s.lastMousePos, << >>)

\* The effect of a render: no listener unless isDragging, else the listener
\* of this render.
registered(s) ==
    IF s.isDragging THEN [registered |-> TRUE, lastMousePos |-> s.lastMousePos]
    ELSE NoListener

\* The canvas with a joint is on screen, the mouse somewhere, no button held.
InitDrag ==
    /\ host = "none"
    /\ isDragging = FALSE
    /\ lastMousePos = NoPos
    /\ rendered = [isDragging |-> FALSE, lastMousePos |-> NoPos]
    /\ listener = NoListener
    /\ \E p \in MousePositions : mouse = [pos |-> p, buttons |-> 0]
    /\ poses = << >>
    /\ clock = 1
    /\ currentStep = NoStep
    /\ loadData = NoData
    /\ timers = << >>
    /\ isLoading = TRUE
    /\ storage = NoItem
    /\ effects = << >>
    /\ currentData = NoData
    /\ file = NoFile
    /\ exported = << >>
    /\ bones = << >>
    /\ vectors = << >>
    /\ quaternions = << >>
    /\ jointObjs = << >>
    /\ chain = NoChain
    /\ solver = NoSolver
    /\ last = [op |-> "init"]
    /\ pre = [vectors |-> vectors, quaternions |-> quaternions, jointObjs |-> jointObjs]
    /\ calls = 0
    /\ pair = NoPair

\* A button goes down, on the joint's mesh or beside it.  handlePointerDown
\* takes the left button only: setIsDragging(true), setLastMousePos(startPos).
PointerDown ==
    /\ mouse.buttons = 0
    /\ \E button \in {0, 2}, over \in BOOLEAN :
         /\ mouse' = [mouse EXCEPT !.buttons = IF button = 0 THEN 1 ELSE 2]
         /\ IF over /\ button = 0
            THEN /\ isDragging' = TRUE
                 /\ lastMousePos' = mouse.pos
            ELSE UNCHANGED <<isDragging, lastMousePos>>
         /\ last' = [op |-> "down", over |-> over, button |-> button]
    /\ UNCHANGED <<rendered, listener>>
    /\ UNCHANGED <<ikVars, uiVars, editorVars, homeVars>>

\* The button goes up: handlePointerUp of the last render if the mouse is on
\* the mesh, handleGlobalMouseUp if the window's listeners are registered.
PointerUp ==
    /\ mouse.buttons # 0
    /\ \E over \in BOOLEAN :
         /\ mouse' = [mouse EXCEPT !.buttons = 0]
         /\ IF (over /\ rendered.isDragging) \/ listener.registered
            THEN /\ isDragging' = FALSE
                 /\ lastMousePos' = NoPos
            ELSE UNCHANGED <<isDragging, lastMousePos>>
         /\ last' = [op |-> "up", over |-> over]
    /\ UNCHANGED <<rendered, listener>>
    /\ UNCHANGED <<ikVars, uiVars, editorVars, homeVars>>

\* JointControl renders with the state as last set, and its effect replaces
\* the window's listeners by those of this render.
Render ==
    /\ \/ rendered # [isDragging |-> isDragging, lastMousePos |-> lastMousePos]
       \/ listener # registered(rendered)
    /\ rendered' = [isDragging |-> isDragging, lastMousePos |-> lastMousePos]
    /\ listener' = registered(rendered')
    /\ last' = [op |-> "render"]
    /\ UNCHANGED <<isDragging, lastMousePos, mouse>>
    /\ UNCHANGED <<ikVars, uiVars, editorVars, homeVars>>

\* The mouse moves once.  The browser sends pointermove, which reaches
\* handlePointerMove of the last render if the mouse is on the mesh, and then
\* mousemove to the window; JointControl may or may not render in between.
\* last.calls lists the deltas onDrag was called with for this movement.
MouseMove ==
    /\ \E pos \in MousePositions \ {mouse.pos}, over \in BOOLEAN, between \in BOOLEAN :
         LET event == [pos |-> pos, buttons |-> mouse.buttons]
             s0 == [isDragging |-> isDragging, lastMousePos |-> lastMousePos]
             r1 == IF over THEN handlePointerMove(rendered, s0, event)
                   ELSE Handled(isDragging, lastMousePos, << >>)
             s1 == [isDragging |-> r1.isDragging, lastMousePos |-> r1.lastMousePos]
             lst == IF between THEN registered(s1) ELSE listener
             r2 == IF lst.registered THEN handleGlobalMouseMove(lst, s1, event)
                   ELSE Handled(s1.isDragging, s1.lastMousePos, << >>)
         IN  /\ mouse' = [mouse EXCEPT !.pos = pos]
             /\ isDragging' = r2.isDragging
             /\ lastMousePos' = r2.lastMousePos
             /\ rendered' = IF between THEN s1 ELSE rendered
             /\ listener' = lst
             /\ last' = [op |-> "move", to |-> pos, over |-> over, between |-> between,
                         isDragging |-> isDragging, lastMousePos |-> lastMousePos,
                         buttons |-> mouse.buttons,
                         calls |-> r1.calls \o r2.calls]
    /\ UNCHANGED <<ikVars, uiVars, editorVars, homeVars>>

\* The timer the effect sets, 3 seconds after it registered the listeners:
\* setIsDragging(false); setLastMousePos(null).
AutoReset ==
    /\ listener.registered
    /\ isDragging
    /\ isDragging' = FALSE
    /\ lastMousePos' = NoPos
    /\ last' = [op |-> "reset"]
    /\ UNCHANGED <<rendered, listener, mouse>>
    /\ UNCHANGED <<ikVars, uiVars, editorVars, homeVars>>

NextDrag ==
    \/ PointerDown
    \/ PointerUp
    \/ Render
    \/ MouseMove
    \/ AutoReset

SpecDrag == InitDrag /\ [][NextDrag]_vars

\* ------------------------------------------------------------ solve() on rounded numbers
\* A JavaScript number is a binary floating-point value: every operation
\* returns the representable value nearest to the exact result, a tie going
\* to the even mantissa.  Here a number is [m, e], the value m * 2^e with m
\* odd (or m = 0 and e = 0) and |m| < 2^Mantissa.  A double has a mantissa
\* of 53 bits; the operations below are those of a double at any width.
Mantissa == 12

RECURSIVE Pow2(_)
Pow2(k) == IF k <= 0 THEN 1 ELSE 2 * Pow2(k - 1)

\* Number of bits of n >= 0.
RECURSIVE BitLength(_)
BitLength(n) == IF n = 0 THEN 0 ELSE 1 + BitLength(n \div 2)

\* The number m * 2^e, m of at most Mantissa bits.
RECURSIVE Number(_, _)
Number(m, e) ==
    IF m = 0 THEN [m |-> 0, e |-> 0]
    ELSE IF m % 2 = 0 THEN Number(m \div 2, e + 1)
    ELSE [m |-> m, e |-> e]

\* The number nearest to n * 2^e, ties to even.
RoundToNearest(n, e) ==
    LET a == Abs(n)
        sh == BitLength(a) - Mantissa
    IN  IF sh <= 0 THEN Number(n, e)
        ELSE LET q == a \div Pow2(sh)
                 r == a % Pow2(sh)
                 half == Pow2(sh - 1)
                 up == IF r > half \/ (r = half /\ q % 2 = 1) THEN q + 1 ELSE q
             IN  Number(IF n < 0 THEN -up ELSE up, e + sh)

\* The number nearest to a / b (a numeric literal such as 0.01 = 1/100);
\* the last bit of 2 * q + 1 keeps an inexact quotient off a tie.
RECURSIVE Widened(_, _, _)
Widened(a, b, k) ==
    IF (a * Pow2(k)) \div b < Pow2(Mantissa + 1) THEN Widened(a, b, k + 1) ELSE k
Ratio(a, b) ==
    IF a = 0 THEN Number(0, 0)
    ELSE LET k == Widened(a, b, 0)
             q == (a * Pow2(k)) \div b
         IN  RoundToNearest(2 * q + (IF (a * Pow2(k)) % b = 0 THEN 0 ELSE 1), -k - 1)

\* x + y, x - y, x * y, 1 / x
Top(x) == BitLength(Abs(x.m)) + x.e
negate(x) == [m |-> -x.m, e |-> x.e]
plus(x, y) ==
    IF x.m = 0 THEN y
    ELSE IF y.m = 0 THEN x
    ELSE IF Top(x) - Top(y) > Mantissa + 2 THEN x
    ELSE IF Top(y) - Top(x) > Mantissa + 2 THEN y
    ELSE LET e == IF x.e < y.e THEN x.e ELSE y.e
         IN  RoundToNearest(x.m * Pow2(x.e - e) + y.m * Pow2(y.e - e), e)
minus(x, y) == plus(x, negate(y))
times(x, y) == RoundToNearest(x.m * y.m, x.e + y.e)
reciprocal(x) ==
    LET w == 2 * Mantissa + 1
        q == Pow2(w) \div Abs(x.m)
        n == 2 * q + (IF Pow2(w) % Abs(x.m) = 0 THEN 0 ELSE 1)
    IN  RoundToNearest(IF x.m < 0 THEN -n ELSE n, -w - x.e - 1)

\* Math.sqrt(x), x >= 0: the mantissa is widened to an even exponent, its
\* integer square root taken by bisection and the result rounded.
RECURSIVE Widen(_, _)
Widen(m, e) ==
    IF BitLength(m) < 2 * Mantissa + 1 \/ e % 2 # 0 THEN Widen(2 * m, e - 1)
    ELSE [m |-> m, e |-> e]
RECURSIVE RootBetween(_, _, _)
RootBetween(n, lo, hi) ==
    IF lo = hi THEN lo
    ELSE LET mid == (lo + hi + 1) \div 2
         IN  IF mid * mid <= n THEN RootBetween(n, mid, hi)
             ELSE RootBetween(n, lo, mid - 1)
sqrt(x) ==
    IF x.m = 0 THEN x
    ELSE LET w == Widen(x.m, x.e)
             r == RootBetween(w.m, 0, Pow2(Mantissa + 1))
         IN  RoundToNearest(2 * r + (IF r * r = w.m THEN 0 ELSE 1), (w.e \div 2) - 1)

\* x > y and x < y: the sign of the difference, which rounding keeps.
greater(x, y) == minus(x, y).m > 0
less(x, y) == minus(x, y).m < 0

\* THREE.Vector3 on rounded numbers.
subRounded(a, b) == <<minus(a[1], b[1]), minus(a[2], b[2]), minus(a[3], b[3])>>
addRounded(a, b) == <<plus(a[1], b[1]), plus(a[2], b[2]), plus(a[3], b[3])>>
multiplyScalarRounded(v, s) == <<times(v[1], s), times(v[2], s), times(v[3], s)>>
\* Math.sqrt(x * x + y * y + z * z)
lengthRounded(v) ==
    sqrt(plus(plus(times(v[1], v[1]), times(v[2], v[2])), times(v[3], v[3])))
distanceToRounded(a, b) == lengthRounded(subRounded(a, b))
\* divideScalar(length() || 1), which is multiplyScalar(1 / scalar)
normalizeRounded(v) ==
    \* the length is bound once
    LET l == CHOOSE x \in {lengthRounded(v)} : TRUE
    IN  multiplyScalarRounded(v, reciprocal(IF l.m = 0 THEN Number(1, 0) ELSE l))

\* Points and targets of the rounded chains, in tenths of a length unit: the
\* root is at the origin, the other joints on the Y axis, the targets off it.
Tenths(x, y, z) == <<Ratio(x, 10), Ratio(y, 10), Ratio(z, 10)>>
RoundedPoints == {Tenths(0, 10, 0), Tenths(0, 15, 0), Tenths(0, 20, 0)}
RoundedTargets == {Tenths(x, y, 0) : x \in {1, 3, 10}, y \in {1, 3, 10}}

MeasureRounded(vs, P) ==
    [i \in 1..(Len(P) - 1) |-> distanceToRounded(vs[P[i]], vs[P[i + 1]])]

\* distances.reduce((sum, dist) => sum + dist, 0)
RECURSIVE SumRounded(_, _, _)
SumRounded(D, i, sum) ==
    IF i > Len(D) THEN sum ELSE SumRounded(D, i + 1, plus(sum, D[i]))

\* The unreachable branch's loop.
RECURSIVE ExtendRounded(_, _, _, _, _, _)
ExtendRounded(vs, P, D, direction, currentPos, i) ==
    IF i > Len(P) THEN vs
    ELSE \* currentPos.add(..) is bound once
         LET pos == CHOOSE p \in {addRounded(currentPos,
                                      multiplyScalarRounded(direction, D[i - 1]))} : TRUE
         IN  ExtendRounded([vs EXCEPT ![P[i]] = pos], P, D, direction, pos, i + 1)

\* Forward reach, the loop for (i = joints.length - 2; i >= 0; i--).
RECURSIVE DescendRounded(_, _, _, _)
DescendRounded(vs, P, D, i) ==
    IF i < 1 THEN vs
    ELSE LET direction == normalizeRounded(subRounded(vs[P[i]], vs[P[i + 1]]))
             pos == addRounded(vs[P[i + 1]], multiplyScalarRounded(direction, D[i]))
         IN  DescendRounded([vs EXCEPT ![P[i]] = pos], P, D, i - 1)

\* Backward reach, the loop for (i = 1; i < joints.length; i++).
RECURSIVE AscendRounded(_, _, _, _)
AscendRounded(vs, P, D, i) ==
    IF i > Len(P) THEN vs
    ELSE LET direction == normalizeRounded(subRounded(vs[P[i]], vs[P[i - 1]]))
             pos == addRounded(vs[P[i - 1]], multiplyScalarRounded(direction, D[i - 1]))
         IN  AscendRounded([vs EXCEPT ![P[i]] = pos], P, D, i + 1)

\* The loop for (iteration = 0; iteration < maxIterations; iteration++).
RECURSIVE IterateRounded(_, _, _, _, _, _, _)
IterateRounded(vs, P, D, target, tolerance, maxIterations, iteration) ==
    IF iteration >= maxIterations
    THEN [vs |-> vs, ret |-> FALSE, iterations |-> iteration]
    ELSE \* the heap after the two passes is bound once
         LET vs1 == CHOOSE h \in {AscendRounded(
                        DescendRounded([vs EXCEPT ![P[Len(P)]] = vs[target]],
                                       P, D, Len(P) - 1),
                        P, D, 2)} : TRUE
         IN  IF less(distanceToRounded(vs1[P[Len(P)]], vs1[target]), tolerance)
             THEN [vs |-> vs1, ret |-> TRUE, iterations |-> iteration + 1]
             ELSE IterateRounded(vs1, P, D, target, tolerance, maxIterations,
                                 iteration + 1)

\* solve() as in ik.ts, every number rounded.
solveRounded(vs, P, target, tolerance, maxIterations) ==
    IF TooShort(Len(P))
    THEN [vs |-> vs, ret |-> FALSE, path |-> "short", iterations |-> 0,
          distances |-> << >>]
    ELSE LET D == CHOOSE d \in {MeasureRounded(vs, P)} : TRUE
             total == SumRounded(D, 1, Number(0, 0))
             startToTarget == distanceToRounded(vs[P[1]], vs[target])
         IN  IF greater(startToTarget, total)
             THEN LET direction == CHOOSE d \in {normalizeRounded(
                                       subRounded(vs[target], vs[P[1]]))} : TRUE
                  IN  [vs |-> ExtendRounded(vs, P, D, direction, vs[P[1]], 2),
                       ret |-> FALSE, path |-> "unreachable", iterations |-> 0,
                       distances |-> D]
             ELSE LET r == CHOOSE x \in {IterateRounded(vs, P, D, target, tolerance,
                                                        maxIterations, 0)} : TRUE
                  IN  [vs |-> r.vs, ret |-> r.ret, path |-> "iterated",
                       iterations |-> r.iterations, distances |-> D]

\* A chain of 2..MaxBones joints built from the caller's bones, and a solver
\* with the constructor's defaults (0.01, 10).
InitRounded ==
    \E n \in 2..MaxBones :
      \E ps \in [2..n -> RoundedPoints] :
        \E t \in RoundedTargets :
          \E r \in {createIKChainFromBones(
                      [i \in 1..n |-> BoneAt(i)], TargetRef, "leftArm",
                      (TargetRef :> t) @@
                        [b \in {BoneRef(i) : i \in 1..n} |->
                           IF b[2] = 1 THEN Tenths(0, 0, 0) ELSE ps[b[2]]],
                      [b \in {BoneRef(i) : i \in 1..n} |-> Identity])} :
            /\ bones = [i \in 1..n |-> BoneAt(i)]
            /\ vectors = r.vectors
            /\ quaternions = r.quaternions
            /\ jointObjs = r.jointObjs
            /\ chain = r.chain
            /\ solver = [tolerance |-> Ratio(1, 100),
                         maxIterations |-> DefaultMaxIterations]
            /\ last = [op |-> "init"]
            /\ PagesAtRest
            /\ pre = [vectors |-> vectors, quaternions |-> quaternions,
                      jointObjs |-> jointObjs]
            /\ calls = 0
            /\ pair = NoPair
            /\ host = "none"
            /\ poses = << >>
            /\ currentData = NoData
            /\ file = NoFile
            /\ exported = << >>
            /\ clock = 0

\* solver.solve()
SolveRounded ==
    /\ calls < MaxCalls
    /\ \E r \in {solveRounded(vectors, JointPositions, chain.target,
                              solver.tolerance, solver.maxIterations)} :
           /\ vectors' = r.vs
           /\ last' = [op |-> "solve", ret |-> r.ret, threw |-> FALSE,
                       path |-> r.path, iterations |-> r.iterations,
                       distances |-> r.distances, prior |-> Brief(last)]
    /\ pre' = Snapshot
    /\ calls' = calls + 1
    /\ UNCHANGED <<bones, quaternions, jointObjs, chain, solver, pair, uiVars, pageVars>>

NextRounded == SolveRounded

SpecRounded == InitRounded /\ [][NextRounded]_vars

\* ------------------------------------------------------------ two solvers side by side
\* Two FABRIKSolver objects, each on a chain of its own built from the same
\* bones with an equal target; the caller calls solve() on either and drags
\* the last joint of either chain, in any order.
MaxPairCalls == 3

\* The solvers of a pair: no tolerance and the test's, the largest small budget.
PairSolvers == {s \in Solvers : s.maxIterations = MaxIter}

\* The targets of a pair: within reach off the axis, and out of reach.
PairTargets == {<<3, 4, 0>>, <<0, 12, 0>>}

\* The world w after the solve() call whose result is r.
afterSolve(w, r) ==
    [solver |-> w.solver, vectors |-> r.vs, pre |-> w.vectors,
     last |-> [op |-> "solve", ret |-> r.ret, exact |-> r.exact,
               measured |-> r.distances],
     calls |-> w.calls + 1]

\* Mutant of solveIn: the solver keeps the segment lengths its first solve()
\* measured and works with them in every later call.
solveInCached(w) ==
    LET P == JointPositions
        vs == w.vectors
        D == IF w.last.measured # << >> THEN w.last.measured ELSE Measure(vs, P)
        st == [vs |-> vs, exact |-> ExactMeasure(vs, P), log |-> << >>]
    IN  IF Unreachable(distanceToSquared(vs[P[1]], vs[chain.target]), totalDistance(D))
        THEN afterSolve(w, [ret |-> FALSE, distances |-> D] @@
                           Extend(st, P, D, normalize(sub(vs[chain.target], vs[P[1]])),
                                  vs[P[1]], 2))
        ELSE afterSolve(w, [distances |-> D] @@
                           Iterate(st, P, D, chain.target, w.solver.tolerance,
                                   w.solver.maxIterations, 0, << >>))

\* solver.solve() in the world w: this.chain, this.tolerance and
\* this.maxIterations are all the call reads of the solver.
solveIn(w) ==
    afterSolve(w, solve(w.vectors, JointPositions, chain.target,
                        w.solver.tolerance, w.solver.maxIterations))

\* chain.joints[n - 1].position.x += ... in the world w.
moveJointIn(w) ==
    [solver |-> w.solver,
     vectors |-> [w.vectors EXCEPT ![JointPositions[Len(JointPositions)]] = add(@, Drag)],
     pre |-> w.vectors,
     last |-> [op |-> "moveJoint", ret |-> FALSE, exact |-> TRUE,
               measured |-> w.last.measured],
     calls |-> w.calls + 1]

InitPair ==
    \E n \in 2..MaxBones :
      \E ps \in {f \in [1..n -> BonePoints] : f[1] = Zero} :
        \E t \in PairTargets :
          \E r \in {createIKChainFromBones(
                      [i \in 1..n |-> BoneAt(i)], TargetRef, "leftArm",
                      (TargetRef :> t) @@ [b \in {BoneRef(i) : i \in 1..n} |-> ps[b[2]]],
                      [b \in {BoneRef(i) : i \in 1..n} |-> Identity])} :
            /\ bones = [i \in 1..n |-> BoneAt(i)]
            /\ vectors = r.vectors
            /\ quaternions = r.quaternions
            /\ jointObjs = r.jointObjs
            /\ chain = r.chain
            /\ solver = NoSolver
            /\ last = [op |-> "init"]
            /\ PagesAtRest
            /\ pre = [vectors |-> vectors, quaternions |-> quaternions,
                      jointObjs |-> jointObjs]
            /\ calls = 0
            /\ \E s1 \in PairSolvers, s2 \in PairSolvers :
                 pair = [k \in 1..2 |->
                           [solver |-> IF k = 1 THEN s1 ELSE s2,
                            vectors |-> r.vectors, pre |-> r.vectors,
                            last |-> [op |-> "init", ret |-> FALSE, exact |-> TRUE,
                                      measured |-> << >>],
                            calls |-> 0]]
            /\ host = "none"
            /\ poses = << >>
            /\ currentData = NoData
            /\ file = NoFile
            /\ exported = << >>
            /\ clock = 0

\* One of the two solvers' solve() is called.
SolveIn ==
    /\ \E k \in 1..2 :
         /\ pair[k].calls < MaxPairCalls
         /\ \E w \in {solveIn(pair[k])} :
              /\ w.last.exact
              /\ pair' = [pair EXCEPT ![k] = w]
    /\ last' = [op |-> "solveIn"]
    /\ UNCHANGED <<bones, vectors, quaternions, jointObjs, chain, solver, pre, calls,
                   uiVars, pageVars>>

\* The caller drags the last joint of one of the two chains.
MoveJointIn ==
    /\ \E k \in 1..2 :
         /\ pair[k].calls < MaxPairCalls
         /\ pair' = [pair EXCEPT ![k] = moveJointIn(pair[k])]
    /\ last' = [op |-> "moveJointIn"]
    /\ UNCHANGED <<bones, vectors, quaternions, jointObjs, chain, solver, pre, calls,
                   uiVars, pageVars>>

NextPair ==
    \/ SolveIn
    \/ MoveJointIn

SpecPair == InitPair /\ [][NextPair]_vars

\* ------------------------------------------------------------ what the claims speak of
\* The chain as the last operation found it and as it left it.
Before(i) == pre.vectors[JointPositions[i]]
After(i) == vectors[JointPositions[i]]
NJoints == Len(chain.joints)
TargetBefore == pre.vectors[chain.target]

Solved == last.op = "solve"

\* The length of segment i when the last solve() began, and their sum.
SegmentSq(i) == distanceToSquared(Before(i), Before(i + 1))
RECURSIVE ReachFrom(_)
ReachFrom(i) == IF i >= NJoints THEN 0 ELSE ISqrt(SegmentSq(i)) + ReachFrom(i + 1)
Reach == ReachFrom(1)

\* The target was within reach of the root when the last solve() began.
WasReachable == distanceToSquared(Before(1), TargetBefore) <= Reach * Reach

\* A squared distance d2 is strictly below the solver's tolerance.
Within(d2) ==
    /\ solver.tolerance.num > 0
    /\ d2 * solver.tolerance.den * solver.tolerance.den
         < solver.tolerance.num * solver.tolerance.num

EffectorToTargetSq == distanceToSquared(After(NJoints), vectors[chain.target])

\* C1: after solve() on a chain of at least 2 joints with a reachable target,
\* joints[0].position is where it was before the call.
C1_RootImmobile ==
    (Solved /\ NJoints >= 2 /\ WasReachable) => After(1) = Before(1)

\* C2: after solve() on a chain of at least 2 joints with a reachable target,
\* every segment has the length measured when the call began.
C2_SegmentLengths ==
    (Solved /\ NJoints >= 2 /\ WasReachable) =>
        \A i \in 1..(NJoints - 1) :
            distanceToSquared(After(i), After(i + 1)) = SegmentSq(i)

\* solve() changed the position of some joint.
Moved == \E i \in 1..NJoints : After(i) # Before(i)

C4_SoundSuccess ==
    (Solved /\ last.ret = TRUE) =>
        /\ Within(EffectorToTargetSq)
        /\ last.iterations >= 1
        /\ last.iterations = Len(last.ends)
        /\ Within(last.ends[last.iterations].d2)
        /\ \A k \in 1..(last.iterations - 1) : ~Within(last.ends[k].d2)
        /\ last.ends[last.iterations].positions = [i \in 1..NJoints |-> After(i)]

\* solve() returned true after it moved the chain, with iterations to spare.
C4_Witness ==
    /\ Solved /\ last.ret = TRUE /\ Moved
    /\ last.iterations < solver.maxIterations

cross(a, b) ==
    <<a[2] * b[3] - a[3] * b[2], a[3] * b[1] - a[1] * b[3], a[1] * b[2] - a[2] * b[1]>>
dot(a, b) == a[1] * b[1] + a[2] * b[2] + a[3] * b[3]

\* C5: when the target is farther from the root than the chain is long,
\* solve() runs no iteration, returns false, leaves the root alone and lays
\* every segment, at its measured length, along the ray from the root to the
\* target.
C5_Unreachable ==
    (Solved /\ NJoints >= 1 /\ ~WasReachable) =>
        /\ last.ret = FALSE
        /\ ~last.threw
        /\ last.iterations = 0
        /\ After(1) = Before(1)
        /\ \A i \in 2..NJoints :
             LET v == sub(After(i), After(i - 1))
                 u == sub(TargetBefore, Before(1))
             IN  /\ cross(v, u) = Zero
                 /\ dot(v, u) >= 0
                 /\ lengthSq(v) = SegmentSq(i - 1)

\* An out-of-reach target for which solve() had to swing the dragged end of
\* a 3-joint chain back onto the ray.
C5_Witness ==
    /\ Solved /\ NJoints = 3 /\ ~WasReachable
    /\ Before(3)[1] # 0 /\ After(3) # Before(3)

\* C6: on a chain of 0 or 1 joints solve() returns false, does not throw and
\* changes no position, no rotation and not the target.
C6_TooShort ==
    (Solved /\ NJoints < 2) =>
        /\ last.ret = FALSE
        /\ ~last.threw
        /\ vectors = pre.vectors
        /\ quaternions = pre.quaternions

\* solve() was called on a chain of one joint, its target one unit away.
C6_Witness ==
    /\ Solved /\ NJoints = 1 /\ sub(vectors[chain.target], After(1)) = <<0, 2, 0>>

BonesUntouched ==
    \A i \in 1..Len(bones) :
        /\ vectors[bones[i].position] = pre.vectors[bones[i].position]
        /\ quaternions[bones[i].quaternion] = pre.quaternions[bones[i].quaternion]

JointsUntouched ==
    \A i \in 1..NJoints :
        /\ After(i) = Before(i)
        /\ quaternions[JointRotations[i]] = pre.quaternions[JointRotations[i]]

\* C7: whatever writes a joint of the chain (solve(), updateRotations(), the
\* caller) leaves every source bone's position and quaternion as it was, and
\* a write to the source bones leaves every joint as it was.
C7_JointsNotAliased ==
    /\ last.op \in {"solve", "updateRotations", "moveJoint"} => BonesUntouched
    /\ last.op = "moveBone" => JointsUntouched

\* solve() moved a joint, or updateRotations() turned one.
C7_Witness ==
    /\ last.op \in {"solve", "updateRotations"}
    /\ \E i \in 1..NJoints :
        \/ After(i) # Before(i)
        \/ quaternions[JointRotations[i]] # pre.quaternions[JointRotations[i]]

\* C8: a write to the caller's own target object after the chain was built
\* does not change chain.target.
C8_TargetNotAliased ==
    last.op = "setTarget" => vectors[chain.target] = pre.vectors[chain.target]

\* C9: built from n >= 1 bones, the chain has n joints, joint i at bone i's
\* position, the given target, the given name, and joints[n-1] as effector.
C9_Construction ==
    (last.op = "create" /\ Len(bones) >= 1) =>
        /\ Len(chain.joints) = Len(bones)
        /\ \A i \in 1..Len(bones) :
             vectors[jointObjs[chain.joints[i]].position] = vectors[bones[i].position]
        /\ vectors[chain.target] = last.target
        /\ chain.name = last.name
        /\ chain.effector = chain.joints[Len(bones)]

\* A chain was built from three bones at three different places.
C9_Witness ==
    /\ last.op = "create" /\ Len(bones) = 3
    /\ vectors[bones[1].position] # vectors[bones[2].position]
    /\ vectors[bones[2].position] # vectors[bones[3].position]
    /\ vectors[bones[1].position] # vectors[bones[3].position]

\* C10: once the chain is built, chain.effector is the joint object
\* joints[joints.length - 1] (undefined for an empty chain), so the effector's
\* position is that of the last joint.
C10_Effector ==
    chain # NoChain =>
        IF NJoints = 0 THEN chain.effector = Undefined
        ELSE /\ chain.effector = chain.joints[NJoints]
             /\ vectors[jointObjs[chain.effector].position] = After(NJoints)

\* solve() moved the last joint of a chain of at least 2 joints.
C10_Witness ==
    /\ Solved /\ NJoints >= 2 /\ After(NJoints) # Before(NJoints)

\* The last solve() came right after a solve() that returned true.
AfterSuccess == Solved /\ last.prior.op = "solve" /\ last.prior.ret

\* On the lattice, where no operation rounds, a solve() right after one that
\* returned true returns true too and moves the effector by less than
\* tolerance (under Spec).
ExactIdempotent ==
    AfterSuccess =>
        /\ last.ret = TRUE
        /\ ~last.threw
        /\ Within(distanceToSquared(After(NJoints), Before(NJoints)))

\* On rounded numbers the effector still moves by less than tolerance between
\* the two calls (under SpecRounded).
EffectorStays ==
    AfterSuccess =>
        less(distanceToRounded(After(NJoints), Before(NJoints)), solver.tolerance)

\* C11: a solve() that immediately follows a solve() that returned true (the
\* target not written in between) returns true too and moves the effector by
\* less than tolerance, on the rounded numbers the code computes with.
C11_Idempotent ==
    AfterSuccess => last.ret = TRUE /\ EffectorStays

\* Every segment already lies along the ray from the root to the target.
Extended ==
    \A i \in 2..NJoints :
        LET v == sub(Before(i), Before(i - 1))
            u == sub(TargetBefore, Before(1))
        IN  cross(v, u) = Zero /\ dot(v, u) >= 0

\* C12: on a chain that is already laid out straight from the root toward a
\* target out of reach, solve() returns false and leaves every joint where
\* it was.
C12_FixedPoint ==
    (Solved /\ NJoints >= 1 /\ ~WasReachable /\ Extended) =>
        /\ last.ret = FALSE
        /\ \A i \in 1..NJoints : After(i) = Before(i)

\* The second of two solve() calls toward the same out-of-reach target, the
\* first of which had unfolded a 3-joint chain.
C12_Witness ==
    /\ Solved /\ NJoints = 3 /\ ~WasReachable /\ Extended
    /\ last.prior.op = "solve"
    /\ Before(3) # vectors[bones[3].position]
    /\ Before(3) # Before(2) /\ Before(2) # Before(1)

\* C13: solve() leaves every orientation, and every joint's name,
\* constraints and position and rotation objects, as they were.
C13_SolveFrame ==
    Solved =>
        /\ quaternions = pre.quaternions
        /\ jointObjs = pre.jointObjs

\* solve() moved a joint and left the orientation that updateRotations()
\* had given the root pointing away from the next joint.
C13_Witness ==
    /\ Solved /\ Moved /\ NJoints >= 2
    /\ last.prior.op = "updateRotations"
    /\ cross(quaternions[JointRotations[1]], sub(After(2), After(1))) # Zero

\* The orientation q is the turn from +Y to the direction of d.
TurnsTo(q, d) ==
    IF d = Zero THEN q = Identity
    ELSE cross(q, d) = Zero /\ dot(q, d) > 0

\* C14: updateRotations() turns every joint but the last toward the next
\* joint and writes nothing else: no position, not the target, not the last
\* joint's orientation, no bone, no joint record.  solve() reads positions,
\* the target, tolerance and maxIterations only, so a solve() after it finds
\* all it reads as it was before.
C14_RotationsFrame ==
    last.op = "updateRotations" =>
        /\ vectors = pre.vectors
        /\ jointObjs = pre.jointObjs
        /\ \A i \in 1..(NJoints - 1) :
             TurnsTo(quaternions[JointRotations[i]], sub(After(i + 1), After(i)))
        /\ \A r \in DOMAIN quaternions :
             r \notin {JointRotations[i] : i \in 1..(NJoints - 1)} =>
                 quaternions[r] = pre.quaternions[r]

\* updateRotations() turned both inner joints of a chain that solve() had
\* moved, and the last joint keeps an orientation that is not the identity.
C14_Witness ==
    /\ last.op = "updateRotations" /\ NJoints >= 2
    /\ quaternions[JointRotations[1]] # pre.quaternions[JointRotations[1]]
    /\ quaternions[JointRotations[NJoints]] # Identity
    /\ After(NJoints) # vectors[bones[NJoints].position]

\* C15: solve() never throws and returns a boolean, whatever the number of
\* joints, their positions, the target, the tolerance and maxIterations.
C15_NoThrow ==
    Solved =>
        /\ ~last.threw
        /\ last.ret \in BOOLEAN

\* solve() was called on a chain without joints.
C15_Witness ==
    /\ Solved /\ NJoints = 0

\* The last solve() came after the caller dragged the last joint, which came
\* after an earlier solve() that measured other segment lengths.
Respaced ==
    /\ Solved /\ NJoints >= 2
    /\ last.prior.op = "moveJoint"
    /\ last.prior.measured # << >>
    /\ \E i \in 1..(NJoints - 1) :
         last.prior.measured[i] * last.prior.measured[i] # SegmentSq(i)

\* C17: when the caller has changed the spacing of the joints between two
\* solve() calls, the second call works with the lengths it measures when it
\* begins and leaves every segment at that new length.
C17_Remeasured ==
    Respaced =>
        /\ Len(last.distances) = NJoints - 1
        /\ \A i \in 1..(NJoints - 1) :
             /\ last.distances[i] * last.distances[i] = SegmentSq(i)
             /\ distanceToSquared(After(i), After(i + 1)) = SegmentSq(i)

\* The point at distance len from anchor on the ray from anchor through old;
\* anchor itself when old is anchor (the zero vector stays zero when
\* normalized).
RefPlace(anchor, old, len) ==
    IF old = anchor THEN anchor
    ELSE LET v == sub(old, anchor)
             d == ISqrt(lengthSq(v))
         IN  <<anchor[1] + (v[1] * len) \div d,
               anchor[2] + (v[2] * len) \div d,
               anchor[3] + (v[3] * len) \div d>>

\* The first pass of an iteration on the positions J with lengths L: the last
\* joint on the target t, then every joint below it, downward, from its
\* already-updated neighbour.
RefForward(J, L, t) ==
    LET n == Len(J)
        F[k \in 0..(n - 1)] ==
            IF k = 0 THEN t ELSE RefPlace(F[k - 1], J[n - k], L[n - k])
    IN  [i \in 1..n |-> F[n - i]]

\* The second pass: every joint from the second upward from the joint
\* before it.
RefBackward(J, L) ==
    LET n == Len(J)
        G[i \in 1..n] ==
            IF i = 1 THEN J[1] ELSE RefPlace(G[i - 1], J[i], L[i - 1])
    IN  [i \in 1..n |-> G[i]]

\* The positions at the end of each of k iterations that start from J.
RECURSIVE RefEnds(_, _, _, _)
RefEnds(J, L, t, k) ==
    IF k = 0 THEN << >>
    ELSE \* the set holds one element: the positions after this iteration
         LET J1 == CHOOSE x \in {RefBackward(RefForward(J, L, t), L)} : TRUE
         IN  <<J1>> \o RefEnds(J1, L, t, k - 1)

\* C18: on a reachable target the joints are, at the end of every iteration
\* and when solve() returns, where the reference passes put them.
C18_IterationSteps ==
    (Solved /\ NJoints >= 2 /\ WasReachable) =>
        LET J == [i \in 1..NJoints |-> Before(i)]
            L == [i \in 1..(NJoints - 1) |-> ISqrt(SegmentSq(i))]
        IN  /\ Len(last.ends) = last.iterations
            /\ \A ref \in {RefEnds(J, L, TargetBefore, last.iterations)} :
                 /\ \A k \in 1..last.iterations : last.ends[k].positions = ref[k]
                 /\ [i \in 1..NJoints |-> After(i)] =
                      IF last.iterations = 0 THEN J ELSE ref[last.iterations]

\* solve() ran two iterations on a 3-joint chain bent off its axis, and
\* moved the middle joint.
C18_Witness ==
    /\ Solved /\ NJoints = 3 /\ WasReachable
    /\ last.iterations >= 2
    /\ Before(3)[1] # 0
    /\ After(2) # Before(2)

\* C19: the straight-line extension is taken exactly when the target is
\* strictly farther from the root than the chain is long; at equal distance
\* solve() runs the iterations.
C19_Boundary ==
    (Solved /\ NJoints >= 2) =>
        LET d2 == distanceToSquared(Before(1), TargetBefore)
        IN  /\ last.path = "unreachable" <=> d2 > Reach * Reach
            /\ d2 = Reach * Reach =>
                 /\ last.path = "iterated"
                 /\ last.iterations >= 1 \/ solver.maxIterations = 0

\* The target was as far from the root as the chain is long, and solve()
\* iterated and moved the chain.
C19_Witness ==
    /\ Solved /\ NJoints >= 2 /\ Reach > 0
    /\ distanceToSquared(Before(1), TargetBefore) = Reach * Reach
    /\ last.path = "iterated" /\ last.iterations >= 1
    /\ Moved

\* C20: on a reachable target solve() returns false only after exactly
\* maxIterations iterations, none of which ended within tolerance, and the
\* joints stay where the last of them put them.
C20_Exhausted ==
    (Solved /\ NJoints >= 2 /\ WasReachable /\ last.ret = FALSE) =>
        /\ last.iterations = solver.maxIterations
        /\ Len(last.ends) = solver.maxIterations
        /\ \A k \in 1..Len(last.ends) : ~Within(last.ends[k].d2)
        /\ [i \in 1..NJoints |-> After(i)] =
             IF solver.maxIterations = 0 THEN [i \in 1..NJoints |-> Before(i)]
             ELSE last.ends[solver.maxIterations].positions

\* solve() used up a budget of two iterations and left the chain moved.
C20_Witness ==
    /\ Solved /\ NJoints >= 2 /\ WasReachable /\ last.ret = FALSE
    /\ last.iterations = 2
    /\ Moved

\* How often joint i occurs in the write log w.
Count(w, i) == Cardinality({k \in 1..Len(w) : w[k] = i})

\* C21: a solve() call runs at most maxIterations iterations of the
\* forward/backward loop, each iteration writes each joint at most twice, and
\* a chain of fewer than 2 joints or an out-of-reach target runs none.
C21_Bounded ==
    Solved =>
        /\ last.iterations \in 0..solver.maxIterations
        /\ Len(last.ends) = last.iterations
        /\ \A k \in 1..Len(last.ends) :
             /\ \A i \in 1..NJoints : Count(last.ends[k].writes, i) <= 2
             /\ \A j \in 1..Len(last.ends[k].writes) :
                  last.ends[k].writes[j] \in 1..NJoints
        /\ (NJoints < 2 => last.iterations = 0 /\ last.path = "short")
        /\ (NJoints >= 2 /\ ~WasReachable =>
              last.iterations = 0 /\ last.path = "unreachable")

\* A call on a 3-joint chain that used its whole budget of 2 iterations and
\* wrote the effector twice in each.
C21_Witness ==
    /\ Solved /\ NJoints = 3
    /\ solver.maxIterations = 2 /\ last.iterations = 2
    /\ \A k \in 1..2 : Count(last.ends[k].writes, 3) = 2


\* The joint positions and the target a world's last call began with, and the
\* joint positions it ended with.
InputsOf(w) ==
    [joints |-> [i \in 1..NJoints |-> w.pre[JointPositions[i]]],
     target |-> w.pre[chain.target],
     tolerance |-> w.solver.tolerance,
     maxIterations |-> w.solver.maxIterations]
OutputsOf(w) ==
    [ret |-> w.last.ret, joints |-> [i \in 1..NJoints |-> w.vectors[JointPositions[i]]]]

C23_SecondPassIdle ==
    Solved =>
        /\ \A k \in 1..Len(last.ends) : last.ends[k].forward = last.ends[k].positions
        /\ (/\ NJoints >= 2 /\ WasReachable
            /\ solver.maxIterations >= 1 /\ solver.tolerance.num > 0)
           => /\ last.ret = TRUE
              /\ last.iterations = 1
              /\ After(NJoints) = TargetBefore

\* A first iteration on 3 joints whose descending pass moved every joint, the
\* root too, the target off the line the chain lay on.
C23_Witness ==
    /\ Solved /\ NJoints = 3 /\ last.ret = TRUE /\ last.iterations = 1
    /\ \A i \in 1..3 : After(i) # Before(i)
    /\ last.ends[1].forward = [i \in 1..3 |-> After(i)]
    /\ cross(sub(Before(3), Before(1)), sub(TargetBefore, Before(1))) # Zero


\* C24: solve() and updateRotations() leave chain.target alone: after either
\* call the chain names the same target object and that object holds the
\* vector it held before, on every path of solve(); and the position object
\* of the effector is never the target object itself, whichever object the
\* caller handed in as target (the effector is given the target's value).
C24_TargetFrame ==
    /\ last.op \in {"solve", "updateRotations"} =>
          /\ chain.target \in DOMAIN pre.vectors
          /\ vectors[chain.target] = pre.vectors[chain.target]
    /\ (chain # NoChain /\ NJoints >= 1) =>
          jointObjs[chain.effector].position # chain.target

\* Witness for C24: the caller's target is the position object of the last
\* bone, and solve() has pinned the effector onto it from somewhere else.
C24_Witness ==
    /\ Solved
    /\ NJoints >= 2
    /\ chain.target = BoneRef(NJoints)
    /\ last.iterations >= 1
    /\ Before(NJoints) # TargetBefore
    /\ After(NJoints) = TargetBefore

\* C25: in the editor, in every reachable state currentStep is null or has
\* the id of a step that is in course.steps, whatever the order of step
\* loads, saves, deletes and timer ticks of a playback.
C25_CurrentStepListed ==
    host = "editor" =>
        \/ currentStep = NoStep
        \/ \E k \in 1..Len(poses) : poses[k].id = currentStep.id

\* What every timer of a playback has done so far: after k ticks it has loaded
\* the first k + 1 steps of the list Play was pressed on, in list order, each
\* once; it is cleared exactly by the tick that finds no step left.
TimersInOrder ==
    \A t \in 1..Len(timers) :
       LET T == timers[t]
           n == Len(T.steps)
       IN  /\ n >= 1
           /\ Len(T.loaded) <= n
           /\ \A k \in 1..Len(T.loaded) : T.loaded[k] = T.steps[k]
           /\ T.index \in 0..n
           /\ Len(T.loaded) = (IF T.index < n THEN T.index + 1 ELSE n)
           /\ T.cleared <=> T.index = n

\* A press of Play on a list without steps loads nothing and sets no timer;
\* on a list with steps it loads the first step and sets one timer on that list.
PlayStep ==
    last'.op = "play" =>
        IF Len(poses) = 0
        THEN UNCHANGED <<currentStep, loadData, timers>>
        ELSE /\ currentStep' = poses[1]
             /\ loadData' = poses[1].data
             /\ Len(timers') = Len(timers) + 1
             /\ timers'[Len(timers')].steps = poses
             /\ timers'[Len(timers')].loaded = <<poses[1]>>
             /\ \A t \in 1..Len(timers) : timers'[t] = timers[t]

\* C28: after a press of Play on n >= 1 steps the steps are loaded in list
\* order from index 0, the first at the press and one more per tick, each
\* exactly once, and the timer is eventually cleared, by the tick after the
\* one that loaded the last step; a press on 0 steps loads nothing and sets
\* no timer.
C28_Playback ==
    /\ []TimersInOrder
    /\ [][PlayStep]_vars
    /\ \A t \in 1..MaxPlays :
          (t <= Len(timers)) ~> (t <= Len(timers) /\ timers[t].cleared
                                   /\ timers[t].loaded = timers[t].steps)

\* Witness for C28: a playback of two steps has loaded both and is cleared,
\* and a later press of Play found no step and did nothing.
C28_Witness ==
    /\ host = "editor"
    /\ Len(timers) = 1
    /\ timers[1].cleared
    /\ Len(timers[1].steps) = 2
    /\ timers[1].loaded = timers[1].steps
    /\ last.op = "play"
    /\ ~last.started
    /\ Len(poses) = 0

\* A write of the item happens after the load, comes from a render after the
\* load, and writes the whole list of that render.
WriteStep ==
    storage' # storage =>
        /\ ~isLoading
        /\ ~Head(effects).isLoading
        /\ storage' = setItem(Head(effects).poses)

\* The load leaves the item as it is and makes a stored array the list.
LoadStep ==
    (last'.op = "effect" /\ last'.effect = "load") =>
        /\ storage' = storage
        /\ storage.kind = "array" => stringify(poses') = storage.text

\* A save, an update or a delete schedules a write of the list it has made.
ChangeStep ==
    last'.op \in {"save", "delete", "import"} =>
        /\ ~isLoading
        /\ effects' = <<scheduled(poses', FALSE)>>

\* Once the scheduled effects have run the item is the text of the list.
InSync == (~isLoading /\ effects = << >>) => storage = setItem(poses)

\* C26: on Home the item 'climbing-poses' is not written before the load
\* effect has run, so a stored array of poses becomes the list and is not
\* replaced by the empty list of the first render; after the load every
\* save, update and delete of the list is followed by a write of the whole
\* list as it then is.
C26_Persistence ==
    /\ [][WriteStep /\ LoadStep /\ ChangeStep]_vars
    /\ []InSync
    /\ (effects # << >>) ~> (effects = << >> /\ storage = setItem(poses))

\* Witness for C26: two poses were in storage, the second was deleted, the
\* first renamed by an import, and the list of one pose has been written.
C26_Witness ==
    /\ host = "home"
    /\ poses = Renamed
    /\ clock = MaxSteps + 1
    /\ last.op = "effect"
    /\ last.wrote
    /\ storage = setItem(poses)

\* The entries of a list with that id.
WithId(list, id) == {k \in 1..Len(list) : list[k].id = id}

\* No two entries of the list have the same id.
DistinctIds == \A i, j \in 1..Len(poses) : poses[i].id = poses[j].id => i = j

\* A save of one step: an entry with its id is replaced where it is and the
\* others stay; without such an entry the step becomes the last entry.
SaveStep ==
    last'.op = "save" =>
        LET id == <<"pose", clock>>
        IN  IF WithId(poses, id) # {}
            THEN /\ Len(poses') = Len(poses)
                 /\ \A k \in 1..Len(poses) :
                       IF poses[k].id = id
                       THEN poses'[k].id = id /\ poses'[k].timestamp = clock
                       ELSE poses'[k] = poses[k]
            ELSE /\ Len(poses') = Len(poses) + 1
                 /\ \A k \in 1..Len(poses) : poses'[k] = poses[k]
                 /\ poses'[Len(poses')].id = id

\* A delete of an id: no entry with the id is left, every other entry is
\* kept, in the order it had.
DeleteStep ==
    last'.op = "delete" =>
        \E id \in {poses[k].id : k \in 1..Len(poses)} :
            /\ WithId(poses', id) = {}
            /\ Len(poses') = Len(poses) - Cardinality(WithId(poses, id))
            /\ \A k \in 1..Len(poses) :
                  poses[k].id # id =>
                      poses'[k - Cardinality({j \in WithId(poses, id) : j < k})] = poses[k]

\* An import of an array: every entry keeps its index and its id, an entry
\* whose id is not in the array is untouched, an id of the array is in the
\* list with the name of the last element that has it, and the list grows
\* by the number of ids that were not in it.
ImportStep ==
    last'.op = "importArray" =>
        LET array == last'.array
            ids == {array[k].id : k \in 1..Len(array)}
            fresh == {id \in ids : WithId(poses, id) = {}}
        IN  /\ Len(poses') = Len(poses) + Cardinality(fresh)
            /\ \A k \in 1..Len(poses) :
                  /\ poses'[k].id = poses[k].id
                  /\ poses[k].id \notin ids => poses'[k] = poses[k]
            /\ \A id \in ids :
                  \E k \in WithId(poses', id) :
                     \E j \in WithId(array, id) :
                        /\ \A i \in WithId(array, id) : i <= j
                        /\ poses'[k].name = array[j].name

\* C27: the list of steps starts with distinct ids and keeps them distinct
\* through saves, imports of any array and deletes: a save of an id that is
\* in the list replaces that entry in place, a save of a new id adds it at
\* the end, and a delete removes the entries with the id and no other.
C27_DistinctIds ==
    /\ []DistinctIds
    /\ [][SaveStep /\ DeleteStep /\ ImportStep]_vars

\* Witness for C27: Controls has saved a step over an imported entry with the
\* same id, where it was, behind an imported entry with another id.
C27_Witness ==
    /\ last.op = "save"
    /\ Len(poses) = 2
    /\ poses[1].id = <<"pose", 0>>
    /\ poses[2].id = <<"pose", 1>>
    /\ poses[2].name = "start"

\* C29: one movement of the mouse makes at most one call of onDrag; a call
\* is made only while isDragging is set and a last mouse position is
\* recorded, and its delta is the way from that position to the new one.
C29_OneDragPerMove ==
    last.op = "move" =>
        /\ Len(last.calls) <= 1
        /\ last.calls # << >> =>
              /\ last.isDragging
              /\ last.lastMousePos # NoPos
              /\ \A k \in 1..Len(last.calls) :
                    last.calls[k] = screenDelta(last.to, last.lastMousePos)

\* C16: after the exported file is imported, every step that was exported is
\* in the list with the id, name, timestamp and pose data it was exported
\* with.
C16_RoundTrip ==
    last.op = "import" =>
        \A k \in 1..Len(exported) :
            \E j \in 1..Len(poses) :
                /\ poses[j].id = exported[k].id
                /\ poses[j].name = exported[k].name
                /\ poses[j].timestamp = exported[k].timestamp
                /\ poses[j].data = exported[k].data

====
